---- MODULE Spec2Model ----
(***************************************************************************)
(* Model of the cookie classifier (cookie_analyzer/classifier.py) and of   *)
(* the summary recount of the reporter (cookie_analyzer/reporter.py).      *)
(*                                                                         *)
(* Python strings are TLA+ strings; the string methods the code uses       *)
(* (lstrip, lower, startswith, endswith, in, split, join) are operators    *)
(* computed character by character.  A Unix time t is carried as the pair  *)
(* day = t div 86400, sec = t mod 86400, so that dates up to and beyond    *)
(* the year 9999 stay inside the integers of the model checker.            *)
(***************************************************************************)
EXTENDS Integers, Sequences, FiniteSets, TLC

(***************************************************************************)
(* String helpers (Python str methods).                                    *)
(***************************************************************************)
CharAt(s, i) == SubSeq(s, i, i)

UpperChars == "ABCDEFGHIJKLMNOPQRSTUVWXYZ"
LowerChars == "abcdefghijklmnopqrstuvwxyz"

LowerChar(c) ==
    IF \E i \in 1..Len(UpperChars) : CharAt(UpperChars, i) = c
    THEN CharAt(LowerChars, CHOOSE i \in 1..Len(UpperChars) : CharAt(UpperChars, i) = c)
    ELSE c

RECURSIVE Lower(_)
Lower(s) == IF Len(s) = 0 THEN "" ELSE LowerChar(CharAt(s, 1)) \o Lower(SubSeq(s, 2, Len(s)))

\* Python: sub in s
Contains(sub, s) ==
    \E i \in 1..(Len(s) - Len(sub) + 1) : SubSeq(s, i, i + Len(sub) - 1) = sub

StartsWith(s, p) == Len(p) <= Len(s) /\ SubSeq(s, 1, Len(p)) = p

EndsWith(s, p) == Len(p) <= Len(s) /\ SubSeq(s, Len(s) - Len(p) + 1, Len(s)) = p

\* Variant: one leading dot is removed (s[1:] when s starts with '.')
LStripDot_once(s) ==
    IF Len(s) > 0 /\ CharAt(s, 1) = "." THEN SubSeq(s, 2, Len(s)) ELSE s

\* Python: s.lstrip('.')
RECURSIVE LStripDot(_)
LStripDot(s) ==
    IF Len(s) > 0 /\ CharAt(s, 1) = "." THEN LStripDot(SubSeq(s, 2, Len(s))) ELSE s

\* Position of the first '.' of s, 0 when there is none
FirstDot(s) ==
    IF \E i \in 1..Len(s) : CharAt(s, i) = "."
    THEN CHOOSE i \in 1..Len(s) : CharAt(s, i) = "." /\ \A j \in 1..(i - 1) : CharAt(s, j) # "."
    ELSE 0

\* Python: s.split('.')
RECURSIVE SplitDot(_)
SplitDot(s) ==
    IF FirstDot(s) = 0 THEN <<s>>
    ELSE <<SubSeq(s, 1, FirstDot(s) - 1)>> \o SplitDot(SubSeq(s, FirstDot(s) + 1, Len(s)))

\* Python: parts[-2:]
LastTwo(parts) == IF Len(parts) <= 2 THEN parts ELSE SubSeq(parts, Len(parts) - 1, Len(parts))

\* Python: '.'.join(parts)
RECURSIVE JoinDot(_)
JoinDot(parts) ==
    IF Len(parts) = 0 THEN ""
    ELSE IF Len(parts) = 1 THEN parts[1]
    ELSE parts[1] \o "." \o JoinDot(Tail(parts))

\* Index of the first entry of list that occurs in s, 0 when none does
FirstContained(list, s) ==
    LET hits == { i \in 1..Len(list) : Contains(list[i], s) }
    IN  IF hits = {} THEN 0 ELSE CHOOSE i \in hits : \A j \in hits : i <= j

(***************************************************************************)
(* The curated lists of the classifier.                                    *)
(***************************************************************************)
tracking_domains ==
    << "analytics", "tracker", "pixel", "ad.", "ads.", "adservice", "doubleclick",
       "google-analytics", "googletagmanager", "googlesyndication", "facebook",
       "twitter", "linkedin", "yahoo", "criteo", "quantserve", "mediamath",
       "adroll", "taboola", "outbrain", "pubmatic", "rubiconproject", "facebook",
       "adnxs", "amazon-adsystem", "scorecardresearch", "casalemedia" >>

tracking_prefixes ==
    << "_ga", "_gid", "_gcl", "_fbp", "_uetsid", "_uetvid", "_hjid", "_hj",
       "AMP_TOKEN", "AMCV_", "AMCVS_", "NID", "IDE", "uuid", "UIDR", "VISITOR",
       "segment_", "track", "mp_", "mixpanel", "amplitude", "parsely_",
       "personalization_id", "utag_", "intercom-", "km_", "id" >>

\* prefix.lower() of every tracking prefix
tracking_prefixes_lower == [ i \in 1..Len(tracking_prefixes) |-> Lower(tracking_prefixes[i]) ]

identifier_terms == << "id", "uid", "user", "visitor", "session", "tracking" >>

fp_terms == << "canvas", "webgl", "audio", "fingerprint", "device" >>

expanded_tracking_domains ==
    << "google-analytics", "doubleclick", "analytics", "segment.io", "mixpanel",
       "amplitude", "chartbeat", "clarity.ms", "hotjar", "parsely", "stats",
       "adsystem", "adnxs", "adserver", "adsrvr", "pubmatic", "rubiconproject",
       "taboola", "outbrain", "criteo", "mediamath", "advertising.com",
       "scorecardresearch", "qualtrics", "quantserve", "trustarc", "moatads",
       "mathtag", "techtarget", "fingerprint", "muid", "onetrust",
       "facebook", "fbcdn", "twitter", "linkedin", "pinterest", "tiktok",
       "sharedid", "rlcdn", "bizible", "demdex", "optimizely", "branch.io" >>

tracking_cookie_names ==
    << "_ga", "_gcl_au", "_fbp", "_scid", "_uetsid", "_uetvid",
       "MUID", "NID", "_sharedid", "OptanonConsent", "cf_clearance" >>

\* third_party_patterns, flattened in the iteration order of the dict
third_party_patterns ==
    << "tracking", "tracker", "analytics", "pixel", "stat",
       "ad", "ads", "advert", "banner", "sponsor", "marketing",
       "consent", "gdpr", "ccpa", "privacy", "cookie-law",
       "share", "social", "connect", "widget" >>

\* tracking_domains of the reporter's recount
report_tracking_domains ==
    << "doubleclick", "google-analytics", "facebook", "fbcdn",
       "amazon-adsystem", "adnxs", "adsrvr", "rubiconproject",
       "criteo", "scorecardresearch", "analytics", "tracker", "adserver",
       "pixel", "ad.", "ads.", "stat.", "stats.", "track.", "tag",
       "pubmatic", "sharethrough", "quantserve", "outbrain", "taboola",
       "hotjar", "linkedin", "pinterest", "snap", "tiktok", "mathtag" >>

(***************************************************************************)
(* Cookie field encodings.                                                 *)
(***************************************************************************)
\* cookie.get('sameSite', -1): the value read when the key is absent
SameSiteAbsent == -1
\* the key is present and holds Python None (reduced Chromium schema)
SameSiteNull == -2
\* the raw code of SameSite=None
SameSiteNoneCode == 0

\* expires: Python None, or a number of seconds since the epoch
NoExpires == [num |-> FALSE, day |-> 0, sec |-> 0]
Stamp(d, s) == [num |-> TRUE, day |-> d, sec |-> s]


\* Last day (since the epoch) datetime.fromtimestamp can return: 9999-12-31
MaxDateDay == 2932896

\* datetime.datetime.fromtimestamp(expires) returns instead of raising
\* (a date past the year 9999 raises, and the except clause swallows it)
FromTimestampOk(expires) == expires.day <= MaxDateDay

\* (expiry_date - now).days: the whole days of the timedelta, rounded down
DaysUntilExpiry(expires, now_) ==
    (expires.day - now_.day) - (IF expires.sec < now_.sec THEN 1 ELSE 0)

\* Days a cookie must outlive: days_until_expiry > 365
LongExpirationDays == 365

(***************************************************************************)
(* CookieClassifier._is_third_party_cookie                                 *)
(***************************************************************************)
\* for domain in all_domains: the three first-party tests of one entry
SameOrganisation(cookie_domain, domain) ==
    \/ cookie_domain = domain
    \/ EndsWith(cookie_domain, "." \o domain)
    \/ /\ Len(SplitDot(cookie_domain)) >= 2
       /\ Len(SplitDot(domain)) >= 2
       /\ LastTwo(SplitDot(cookie_domain)) = LastTwo(SplitDot(domain))

DomainStructureFirstParty(cookie_domain, all_domains) ==
    \E domain \in all_domains : SameOrganisation(cookie_domain, domain)

\* cookie.get('sameSite', -1) == 0 and cookie.get('secure', False)
SameSiteNoneSecure(cookie) ==
    cookie.sameSite = SameSiteNoneCode /\ cookie.secure

NameInTrackingCookieNames(cookie_name) ==
    \E i \in 1..Len(tracking_cookie_names) : tracking_cookie_names[i] = cookie_name

\* Variant: the Domain Index test runs ahead of the tracker lists and the SameSite test
_is_third_party_cookie_index_first(cookie, all_domains) ==
    LET cookie_domain == LStripDot(cookie.domain)
        cookie_name   == cookie.name
        k2 == FirstContained(expanded_tracking_domains, cookie_domain)
        k6 == FirstContained(third_party_patterns, Lower(cookie_domain))
    IN  IF cookie_domain = ""
        THEN [tp |-> FALSE, reason |-> ""]
        ELSE IF DomainStructureFirstParty(cookie_domain, all_domains)
        THEN [tp |-> FALSE, reason |-> ""]
        ELSE IF k2 # 0
        THEN [tp |-> TRUE,
              reason |-> "Domain contains known tracking pattern '"
                         \o expanded_tracking_domains[k2] \o "'"]
        ELSE IF NameInTrackingCookieNames(cookie_name)
        THEN [tp |-> TRUE,
              reason |-> "Cookie name matches known tracking cookie '" \o cookie_name \o "'"]
        ELSE IF SameSiteNoneSecure(cookie)
        THEN [tp |-> TRUE,
              reason |-> "SameSite=None and Secure attribute indicates third-party usage"]
        ELSE IF k6 # 0
        THEN [tp |-> TRUE,
              reason |-> "Domain contains known third-party pattern '"
                         \o third_party_patterns[k6] \o "'"]
        ELSE [tp |-> TRUE,
              reason |-> "Domain does not match any first-party domain and is likely third-party"]

\* Variant: the keyword sweep runs ahead of the Domain Index test
_is_third_party_cookie_keyword_first(cookie, all_domains) ==
    LET cookie_domain == LStripDot(cookie.domain)
        cookie_name   == cookie.name
        k2 == FirstContained(expanded_tracking_domains, cookie_domain)
        k6 == FirstContained(third_party_patterns, Lower(cookie_domain))
    IN  IF cookie_domain = ""
        THEN [tp |-> FALSE, reason |-> ""]
        ELSE IF k2 # 0
        THEN [tp |-> TRUE,
              reason |-> "Domain contains known tracking pattern '"
                         \o expanded_tracking_domains[k2] \o "'"]
        ELSE IF NameInTrackingCookieNames(cookie_name)
        THEN [tp |-> TRUE,
              reason |-> "Cookie name matches known tracking cookie '" \o cookie_name \o "'"]
        ELSE IF SameSiteNoneSecure(cookie)
        THEN [tp |-> TRUE,
              reason |-> "SameSite=None and Secure attribute indicates third-party usage"]
        ELSE IF k6 # 0
        THEN [tp |-> TRUE,
              reason |-> "Domain contains known third-party pattern '"
                         \o third_party_patterns[k6] \o "'"]
        ELSE IF DomainStructureFirstParty(cookie_domain, all_domains)
        THEN [tp |-> FALSE, reason |-> ""]
        ELSE [tp |-> TRUE,
              reason |-> "Domain does not match any first-party domain and is likely third-party"]

_is_third_party_cookie(cookie, all_domains) ==
    LET cookie_domain == LStripDot(cookie.domain)
        cookie_name   == cookie.name
        k2 == FirstContained(expanded_tracking_domains, cookie_domain)
        k6 == FirstContained(third_party_patterns, Lower(cookie_domain))
    IN  IF cookie_domain = ""
        THEN [tp |-> FALSE, reason |-> ""]
        ELSE IF k2 # 0
        THEN [tp |-> TRUE,
              reason |-> "Domain contains known tracking pattern '"
                         \o expanded_tracking_domains[k2] \o "'"]
        ELSE IF NameInTrackingCookieNames(cookie_name)
        THEN [tp |-> TRUE,
              reason |-> "Cookie name matches known tracking cookie '" \o cookie_name \o "'"]
        ELSE IF SameSiteNoneSecure(cookie)
        THEN [tp |-> TRUE,
              reason |-> "SameSite=None and Secure attribute indicates third-party usage"]
        ELSE IF DomainStructureFirstParty(cookie_domain, all_domains)
        THEN [tp |-> FALSE, reason |-> ""]
        ELSE IF k6 # 0
        THEN [tp |-> TRUE,
              reason |-> "Domain contains known third-party pattern '"
                         \o third_party_patterns[k6] \o "'"]
        ELSE [tp |-> TRUE,
              reason |-> "Domain does not match any first-party domain and is likely third-party"]

(***************************************************************************)
(* CookieClassifier._classify_cookie                                       *)
(***************************************************************************)
\* Index of the first tracking prefix the lower-cased name starts with, or 0
FirstPrefix(name) ==
    LET lname == Lower(name)
        hits  == { i \in 1..Len(tracking_prefixes) : StartsWith(lname, tracking_prefixes_lower[i]) }
    IN  IF hits = {} THEN 0 ELSE CHOOSE i \in hits : \A j \in hits : i <= j

\* re.search(r'(id|uid|user|visitor|session|tracking)', name.lower())
SuspiciousName(name) == FirstContained(identifier_terms, Lower(name)) # 0

\* any(fp_term in name.lower() for fp_term in [...])
FingerprintingName(name) == FirstContained(fp_terms, Lower(name)) # 0

\* Variant: a cookie that lives 365 whole days already counts as long-lived
LongExpiration_from_365(expires, now_) ==
    /\ expires.num
    /\ FromTimestampOk(expires)
    /\ DaysUntilExpiry(expires, now_) >= LongExpirationDays

\* isinstance(expires, (int, float)), no exception, and days_until_expiry > 365
LongExpiration(expires, now_) ==
    /\ expires.num
    /\ FromTimestampOk(expires)
    /\ DaysUntilExpiry(expires, now_) > LongExpirationDays

\* Variant: the third-party branch appends its reason without setting is_tracking
IsTracking_without_third_party(s1, s2, s3, s4, s5, s6) == s1 \/ s2 \/ s3 \/ s5 \/ s6

\* Variant: the fingerprinting branch sets its feature without setting is_tracking
IsTracking_without_fingerprinting(s1, s2, s3, s4, s5, s6) == s1 \/ s2 \/ s3 \/ s4 \/ s5

\* is_tracking starts False and every branch that fires sets it True
IsTracking(s1, s2, s3, s4, s5, s6) == s1 \/ s2 \/ s3 \/ s4 \/ s5 \/ s6

\* Variant: third_party_reason is appended whatever the verdict
ThirdPartyReasons_unconditional(third) == << third.reason >>

\* if is_third_party: reasons.append(third_party_reason)
ThirdPartyReasons(third) == IF third.tp THEN << third.reason >> ELSE << >>

_classify_cookie(cookie, all_domains, now_) ==
    LET name    == cookie.name
        domain  == LStripDot(cookie.domain)
        expires == cookie.expires
        kp == FirstPrefix(name)
        r1 == IF kp # 0
              THEN << "Name starts with tracking prefix '" \o tracking_prefixes[kp] \o "'" >>
              ELSE << >>
        s2 == SuspiciousName(name)
        r2 == IF s2 THEN << "Name contains tracking identifiers" >> ELSE << >>
        kd == FirstContained(tracking_domains, domain)
        r3 == IF kd # 0
              THEN << "Domain contains known tracking pattern '" \o tracking_domains[kd] \o "'" >>
              ELSE << >>
        third == _is_third_party_cookie(cookie, all_domains)
        r4 == ThirdPartyReasons(third)
        s5 == LongExpiration(expires, now_)
        r5 == IF s5
              THEN << "Long-lived cookie (expires in "
                      \o ToString(DaysUntilExpiry(expires, now_)) \o " days)" >>
              ELSE << >>
        s6 == FingerprintingName(name)
        r6 == IF s6 THEN << "Cookie name suggests fingerprinting" >> ELSE << >>
    IN  [ is_tracking    |-> IsTracking(kp # 0, s2, kd # 0, third.tp, s5, s6),
          reasons        |-> r1 \o r2 \o r3 \o r4 \o r5 \o r6,
          is_third_party |-> third.tp,
          features       |-> [ known_tracker          |-> (kp # 0) \/ (kd # 0),
                               fingerprinting_related |-> s6,
                               long_expiration        |-> s5,
                               third_party            |-> third.tp,
                               suspicious_name        |-> s2 ] ]


(***************************************************************************)
(* State.                                                                  *)
(***************************************************************************)
VARIABLES
    pc,            \* position of the caller: which call has returned
    cookies,       \* the list handed to classify_cookies (its dicts are shared with the result)
    clock,         \* clock[i]: what datetime.now() returns while cookie i is classified
    domain_index,  \* all_domains of the last classify_cookies call
    result,        \* the bundle classify_cookies returned / the classification of one cookie
    tp_result,     \* the pair _is_third_party_cookie returned
    browser,       \* self.browser of the extractor
    store,         \* the cookie database file the extractor reads
    run,           \* a multi-browser run: its driver, its browsers and how far it got
    disk,          \* the files on disk while extraction passes run: path -> file
    passes,        \* the extraction passes under way, each with its position and locals
    stats          \* self.stats of the standalone script extractor

vars == << pc, cookies, clock, domain_index, result, tp_result, browser, store, run,
           disk, passes, stats >>

\* The state of extraction, which classification and reporting leave alone
extractVars == << browser, store, run, disk, passes, stats >>

\* The files, the passes and the script extractor, which one extract() call seen as a
\* whole and the multi-browser run leave alone
passVars == << disk, passes, stats >>

NoPasses == disk = << >> /\ passes = << >> /\ stats = << >>

\* No extractor, store or run exists while only the classifier is exercised
NoExtraction == browser = "" /\ store = << >> /\ run = << >> /\ NoPasses

(***************************************************************************)
(* CookieClassifier.classify_cookies                                       *)
(***************************************************************************)
\* extracted_domains: cookie['domain'].lstrip('.') of every cookie
ExtractedDomains(cs) == { LStripDot(cs[i].domain) : i \in 1..Len(cs) }

\* Variant: the index holds the last-two-label reductions only
DomainIndex_reductions_only(cs) ==
    { JoinDot(LastTwo(SplitDot(d))) : d \in { e \in ExtractedDomains(cs) : Len(SplitDot(e)) > 2 } }

\* all_domains: every extracted domain, and the last two labels of those with more than two
DomainIndex(cs) ==
    ExtractedDomains(cs) \cup
    { JoinDot(LastTwo(SplitDot(d))) : d \in { e \in ExtractedDomains(cs) : Len(SplitDot(e)) > 2 } }

\* Variant: the normalised domain is written back into the cookie
Attach_normalises_domain(cookie, classification) ==
    [ f \in DOMAIN cookie \cup { "classification" } |->
        IF f = "classification" THEN classification
        ELSE IF f = "domain" THEN LStripDot(cookie.domain)
        ELSE cookie[f] ]

\* cookie['classification'] = classification: one key is set, the others stay
Attach(cookie, classification) ==
    [ f \in DOMAIN cookie \cup { "classification" } |->
        IF f = "classification" THEN classification ELSE cookie[f] ]

Classified(cs, all_domains, clk) ==
    [ i \in 1..Len(cs) |-> Attach(cs[i], _classify_cookie(cs[i], all_domains, clk[i])) ]

\* Variant: the cookie is appended to both lists
SelectCookies_both(cs, tracking) == cs

\* The cookies of cs whose is_tracking is the given value, in their order
RECURSIVE SelectCookies(_, _)
SelectCookies(cs, tracking) ==
    IF Len(cs) = 0 THEN << >>
    ELSE (IF cs[1].classification.is_tracking = tracking THEN << cs[1] >> ELSE << >>)
         \o SelectCookies(Tail(cs), tracking)

\* third_party_cookies += 1 for every classification['is_third_party']
CountThirdParty(cs) == Cardinality({ i \in 1..Len(cs) : cs[i].classification.is_third_party })

\* Variant: the ratio is scaled by 1000 instead of 100
RoundTenths_per_mille(part, total) ==
    LET q == (part * 10000) \div total
        r == (part * 10000) % total
    IN  IF 2 * r > total \/ (2 * r = total /\ q % 2 = 1) THEN q + 1 ELSE q

\* round(x, 1) of x = part / total * 100, in tenths of a percent (ties to even)
RoundTenths(part, total) ==
    LET q == (part * 1000) \div total
        r == (part * 1000) % total
    IN  IF 2 * r > total \/ (2 * r = total /\ q % 2 = 1) THEN q + 1 ELSE q

Summary(cs, all_domains, tracking_cookies, non_tracking_cookies) ==
    [ total_cookies        |-> Len(cs),
      tracking_cookies     |-> Len(tracking_cookies),
      non_tracking_cookies |-> Len(non_tracking_cookies),
      tracking_percentage  |-> IF Len(cs) > 0 THEN RoundTenths(Len(tracking_cookies), Len(cs)) ELSE 0,
      unique_domains       |-> Cardinality(all_domains),
      third_party_cookies  |-> CountThirdParty(cs),
      first_party_cookies  |-> Len(cs) - CountThirdParty(cs) ]

\* The returned bundle, from the cookies once their classification is attached
Bundle(done, all_domains) ==
    [ tracking     |-> SelectCookies(done, TRUE),
      non_tracking |-> SelectCookies(done, FALSE),
      summary      |-> Summary(done, all_domains,
                               SelectCookies(done, TRUE), SelectCookies(done, FALSE)) ]

classify_cookies ==
    /\ pc = "start"
    /\ pc' = "classified"
    /\ domain_index' = DomainIndex(cookies)
    /\ cookies' = Classified(cookies, domain_index', clock)
    /\ result' = Bundle(cookies', domain_index')
    /\ UNCHANGED << clock, tp_result >>
    /\ UNCHANGED extractVars

(***************************************************************************)
(* CookieReporter.generate_report: the changes it makes to the bundle.     *)
(* They are all made before the HTML is formatted, so the bundle is left   *)
(* in this state whether the formatting then returns or raises.            *)
(***************************************************************************)
\* The recount runs while the summary holds at most this many third-party cookies
RecountLimit == 10

\* The recount counts a cookie when its domain holds a pattern or it was classified third-party
RecountsAsThirdParty(cookie) ==
    \/ FirstContained(report_tracking_domains, LStripDot(cookie.domain)) # 0
    \/ cookie.classification.is_third_party

RecountThirdParty(cs) == Cardinality({ i \in 1..Len(cs) : RecountsAsThirdParty(cs[i]) })

\* The summary built when the bundle has none
RebuiltSummary(bundle) ==
    LET all_cookies == bundle.tracking \o bundle.non_tracking
        total_cookies == Len(all_cookies)
    IN  [ total_cookies        |-> total_cookies,
          tracking_cookies     |-> Len(bundle.tracking),
          non_tracking_cookies |-> Len(bundle.non_tracking),
          tracking_percentage  |-> IF total_cookies > 0
                                   THEN RoundTenths(Len(bundle.tracking), total_cookies) ELSE 0,
          third_party_cookies  |-> CountThirdParty(all_cookies),
          first_party_cookies  |-> total_cookies - CountThirdParty(all_cookies) ]

\* Variant: the recount stores third_party_cookies and leaves first_party_cookies as it was
ReportedSummary_stale_first_party(bundle) ==
    LET summary == IF "summary" \in DOMAIN bundle THEN bundle.summary ELSE RebuiltSummary(bundle)
        third_party_count == RecountThirdParty(bundle.tracking \o bundle.non_tracking)
    IN  IF summary.third_party_cookies <= RecountLimit
        THEN [ summary EXCEPT !.third_party_cookies = third_party_count ]
        ELSE summary

ReportedSummary(bundle) ==
    LET summary == IF "summary" \in DOMAIN bundle THEN bundle.summary ELSE RebuiltSummary(bundle)
        third_party_count == RecountThirdParty(bundle.tracking \o bundle.non_tracking)
    IN  IF summary.third_party_cookies <= RecountLimit
        THEN [ summary EXCEPT !.third_party_cookies = third_party_count,
                              !.first_party_cookies = summary.total_cookies - third_party_count ]
        ELSE summary

generate_report ==
    /\ pc = "classified"
    /\ pc' = "reported"
    /\ result' = [ tracking |-> result.tracking, non_tracking |-> result.non_tracking,
                   summary |-> ReportedSummary(result) ]
    /\ UNCHANGED << cookies, clock, domain_index, tp_result >>
    /\ UNCHANGED extractVars

(***************************************************************************)
(* Inputs.                                                                 *)
(***************************************************************************)
\* Longest batch handed to classify_cookies
MaxBatch == 2

\* Evaluation instants: midnight and noon of one day
Nows == { Stamp(20000, 0), Stamp(20000, 43200) }

\* Cookies of the batches: every domain with every profile of the other fields
BatchDomains == { "", "example.com", ".stat.example.com", "doubleclick.net", "tagx.org" }

BatchProfiles ==
    { [ name |-> "cart", expires |-> NoExpires,        secure |-> FALSE, sameSite |-> SameSiteNull ],
      [ name |-> "cart", expires |-> NoExpires,        secure |-> TRUE,  sameSite |-> SameSiteNoneCode ],
      [ name |-> "_ga",  expires |-> Stamp(20400, 0),  secure |-> TRUE,  sameSite |-> SameSiteNoneCode ],
      [ name |-> "sid",  expires |-> Stamp(20366, 0),  secure |-> FALSE, sameSite |-> 1 ] }

BatchCookies ==
    { [ domain |-> d, name |-> p.name, value |-> "v", path |-> "/",
        expires |-> p.expires, secure |-> p.secure, httpOnly |-> FALSE,
        sameSite |-> p.sameSite, created |-> Stamp(19000, 0),
        lastAccessed |-> Stamp(19999, 0), session |-> ~p.expires.num,
        persistent |-> p.expires.num, sourceScheme |-> SameSiteNull ] :
      d \in BatchDomains, p \in BatchProfiles }

SeqsUpTo(S, n) == UNION { [ 1..k -> S ] : k \in 0..n }

\* datetime.now() never goes back between two cookies
Monotone(clk) ==
    \A i \in 1..(Len(clk) - 1) :
        \/ clk[i].day < clk[i + 1].day
        \/ clk[i].day = clk[i + 1].day /\ clk[i].sec <= clk[i + 1].sec

Init ==
    /\ pc = "start"
    /\ cookies \in SeqsUpTo(BatchCookies, MaxBatch)
    /\ clock \in { clk \in [ 1..Len(cookies) -> Nows ] : Monotone(clk) }
    /\ domain_index = {}
    /\ result = << >>
    /\ tp_result = << >>
    /\ NoExtraction

Next == classify_cookies \/ generate_report

Spec == Init /\ [][Next]_vars

(***************************************************************************)
(* One call of _classify_cookie or of _is_third_party_cookie, on any       *)
(* cookie and any Domain Index.                                            *)
(***************************************************************************)
CallDomains ==
    { "", "example.com", "..stat.example.com", "Stat.other.org",
      "doubleclick.net", "example.com.", "localhost" }

CallNames == { "cart", "_ga", "_GA_x", "MUID", "canvas_fp", "uuid_device" }

CallExpires ==
    { NoExpires, Stamp(0, 0), Stamp(20365, 1), Stamp(20366, 0),
      Stamp(20366, 43200), Stamp(MaxDateDay + 1, 0) }

CallSameSite == { SameSiteAbsent, SameSiteNull, SameSiteNoneCode }

CallCookies ==
    [ domain : CallDomains, name : CallNames, expires : CallExpires,
      secure : BOOLEAN, sameSite : CallSameSite ]

CallIndexDomains == { "", "example.com", "other.org", "doubleclick.net" }

\* Most entries of a Domain Index handed to one call
MaxIndex == 1

InitCall ==
    /\ pc = "call"
    /\ cookies \in [ 1..1 -> CallCookies ]
    /\ clock \in [ 1..1 -> Nows ]
    /\ domain_index \in { ix \in SUBSET CallIndexDomains : Cardinality(ix) <= MaxIndex }
    /\ result = << >>
    /\ tp_result = << >>
    /\ NoExtraction

Call_classify_cookie ==
    /\ pc = "call"
    /\ pc' = "cookie_done"
    /\ result' = _classify_cookie(cookies[1], domain_index, clock[1])
    /\ UNCHANGED << cookies, clock, domain_index, tp_result >>
    /\ UNCHANGED extractVars

Call_is_third_party_cookie ==
    /\ pc = "call"
    /\ pc' = "tp_done"
    /\ tp_result' = _is_third_party_cookie(cookies[1], domain_index)
    /\ UNCHANGED << cookies, clock, domain_index, result >>
    /\ UNCHANGED extractVars

NextCall == Call_classify_cookie \/ Call_is_third_party_cookie

SpecCall == InitCall /\ [][NextCall]_vars

(***************************************************************************)
(* Extraction: CookieExtractor over one cookie database                    *)
(***************************************************************************)

\* A cell of a row, or a time field of a record: Python None ("none"), an int counted
\* in microseconds ("micros"), a number of seconds ("seconds": day * 86400 + sec +
\* usec / 10^6) or a non-empty str ("text", which SQLite stores in any column)
Cell(kind, d, s, u) == [ kind |-> kind, day |-> d, sec |-> s, usec |-> u ]
PyNone == Cell("none", 0, 0, 0)
Micros(d, s, u) == Cell("micros", d, s, u)
Seconds(d, s, u) == Cell("seconds", d, s, u)
Text == Cell("text", 0, 0, 0)

IsNumber(v) == v.kind \in { "micros", "seconds" }

\* Python: v == 0
IsZero(v) == IsNumber(v) /\ v.day = 0 /\ v.sec = 0 /\ v.usec = 0

\* Python: bool(v)
Truthy(v) == v.kind = "text" \/ (IsNumber(v) /\ ~IsZero(v))

\* 11644473600 seconds from 1601-01-01 to 1970-01-01 are 134774 days of 86400 seconds
ChromeEpochDays == 134774

\* v / 1000000 raises TypeError for a str
DivisionRaises(v) == ~IsNumber(v)

\* Variant: the microseconds are scaled to seconds but the epoch is not shifted
_chrome_time_to_unix_unshifted(chrome_time) ==
    IF ~Truthy(chrome_time) THEN PyNone
    ELSE Seconds(chrome_time.day, chrome_time.sec, chrome_time.usec)

\* CookieExtractor._chrome_time_to_unix, for a value the division accepts
_chrome_time_to_unix(chrome_time) ==
    IF ~Truthy(chrome_time) THEN PyNone
    ELSE Seconds(chrome_time.day - ChromeEpochDays, chrome_time.sec, chrome_time.usec)

\* self._chrome_time_to_unix(x) if x else None  raises
ChromeTimeRaises(x) == Truthy(x) /\ DivisionRaises(x)

\* x / 1000000 if x else None  (creationTime, lastAccessed of moz_cookies)
MicrosToSeconds(x) == IF Truthy(x) THEN Seconds(x.day, x.sec, x.usec) ELSE PyNone

\* A row is the tuple the cursor returns; Python row[k] is row[k + 1] here
ChromeRowRaises(row) == \E k \in { 5, 8, 9 } : ChromeTimeRaises(row[k])

\* The dict built from one row of the cookies table (None is SameSiteNull in the
\* integer fields sameSite and sourceScheme)
ChromeCookie(row) ==
    [ domain |-> row[1], name |-> row[2], value |-> row[3], path |-> row[4],
      expires |-> IF Truthy(row[5]) THEN _chrome_time_to_unix(row[5]) ELSE PyNone,
      secure |-> row[6] # 0, httpOnly |-> row[7] # 0,
      created |-> IF Truthy(row[8]) THEN _chrome_time_to_unix(row[8]) ELSE PyNone,
      lastAccessed |-> IF Truthy(row[9]) THEN _chrome_time_to_unix(row[9]) ELSE PyNone,
      session |-> ~(row[10] # 0), persistent |-> row[11] # 0,
      sameSite |-> IF Len(row) > 11 THEN row[12] ELSE SameSiteNull,
      sourceScheme |-> IF Len(row) > 12 THEN row[13] ELSE SameSiteNull ]

FirefoxRowRaises(row) == \E k \in { 8, 9 } : Truthy(row[k]) /\ DivisionRaises(row[k])

\* The dict built from one row of moz_cookies
FirefoxCookie(row) ==
    [ domain |-> row[1], name |-> row[2], value |-> row[3], path |-> row[4],
      expires |-> row[5],
      secure |-> row[6] # 0, httpOnly |-> row[7] # 0,
      created |-> MicrosToSeconds(row[8]),
      lastAccessed |-> MicrosToSeconds(row[9]),
      session |-> IsZero(row[5]), persistent |-> ~IsZero(row[5]) ]

\* The first SELECT returns rows: the file opens and has every column it names
PrimaryQueryOk(st) == st.readable /\ st.format = "chromium_primary"

\* The SELECT without samesite and source_scheme returns rows
ReducedQueryOk(st) == st.readable /\ st.format = "chromium_reduced"

FirefoxQueryOk(st) == st.readable /\ st.format = "firefox"

\* Rows appended to self.cookies before the loop ends: all of them, or those before
\* the first row whose conversion raises (the except clause then ends the pass)
Appended(rows, raising) ==
    LET stop == IF raising = {} THEN Len(rows) + 1
                ELSE CHOOSE k \in raising : \A m \in raising : k <= m
    IN  stop - 1

\* self.cookies after _extract_from_chrome
_extract_from_chrome(st) ==
    IF PrimaryQueryOk(st) \/ ReducedQueryOk(st)
    THEN LET raising == { k \in 1..Len(st.rows) : ChromeRowRaises(st.rows[k]) }
         IN  [ k \in 1..Appended(st.rows, raising) |-> ChromeCookie(st.rows[k]) ]
    ELSE << >>

\* self.cookies after _extract_from_firefox
_extract_from_firefox(st) ==
    IF FirefoxQueryOk(st)
    THEN LET raising == { k \in 1..Len(st.rows) : FirefoxRowRaises(st.rows[k]) }
         IN  [ k \in 1..Appended(st.rows, raising) |-> FirefoxCookie(st.rows[k]) ]
    ELSE << >>

SupportedBrowser(b) == b \in { "chrome", "edge", "firefox" }

\* self.cookies after extract(): reset, then filled by the pass of the dialect
ExtractedCookies(b, st) ==
    IF b = "chrome" \/ b = "edge" THEN _extract_from_chrome(st)
    ELSE IF b = "firefox" THEN _extract_from_firefox(st)
    ELSE << >>

\* What extract() hands to its caller: it never raises; it returns self.cookies, or
\* [] from the except clause when the browser is not supported
ExtractReturns(b, st) ==
    [ raised |-> FALSE,
      value |-> IF SupportedBrowser(b) THEN ExtractedCookies(b, st) ELSE << >> ]

\* CookieExtractor.extract, called for the first time or again on the same object:
\* self.cookies is emptied first (line 45), so nothing of the call before remains
extract ==
    /\ pc \in { "constructed", "extracted", "extracted_again" }
    /\ pc' = IF pc = "constructed" THEN "extracted" ELSE "extracted_again"
    /\ cookies' = ExtractedCookies(browser, store)
    /\ result' = ExtractReturns(browser, store)
    /\ UNCHANGED << clock, domain_index, tp_result, browser, store, run >>
    /\ UNCHANGED passVars

\* Longest table extracted
MaxRows == 2

\* Rows of a cookies table: host_key, name, value, path, expires_utc, is_secure,
\* is_httponly, creation_utc, last_access_utc, has_expires, is_persistent, samesite,
\* source_scheme
ChromeRows ==
    { << ".example.com", "sid", "v", "/", Micros(153654, 70800, 0), 1, 1,
         Micros(153000, 0, 0), Micros(153100, 0, 500000), 1, 1, 0, 2 >>,
      << "example.com", "cart", "v", "/", Micros(0, 0, 0), 0, 0,
         Micros(153000, 0, 0), Micros(153100, 0, 0), 0, 0, -1, 1 >>,
      << "tracker.net", "_ga", "v", "/", Micros(153654, 70800, 0), 1, 0,
         Micros(153000, 0, 0), Micros(153100, 0, 0), 0, 0, 1, 2 >>,
      << "stat.example.com", "uid", "v", "/", Micros(160000, 43200, 250000), 0, 1,
         Text, Micros(153100, 0, 0), 1, 1, 1, 2 >>,
      << "example.com", "pref", "v", "/", PyNone, 0, 1,
         PyNone, Micros(0, 0, 0), 0, 0, 2, 0 >> }

\* The same rows as a table without samesite and source_scheme returns them
ReducedRows == { SubSeq(row, 1, 11) : row \in ChromeRows }

\* Rows of moz_cookies: host, name, value, path, expiry, isSecure, isHttpOnly,
\* creationTime, lastAccessed
FirefoxRows ==
    { << ".example.com", "sid", "v", "/", Seconds(20400, 0, 0), 1, 1,
         Micros(19000, 0, 0), Micros(19999, 0, 500000) >>,
      << "example.com", "cart", "v", "/", Seconds(0, 0, 0), 0, 0,
         Micros(19000, 0, 0), Micros(19999, 0, 0) >>,
      << "tracker.net", "_ga", "v", "/", PyNone, 1, 0,
         Micros(19000, 0, 0), PyNone >>,
      << "stat.example.com", "uid", "v", "/", Seconds(20400, 0, 0), 0, 0,
         Text, Micros(19999, 0, 0) >> }

Store(readable, format, rows) == [ readable |-> readable, format |-> format, rows |-> rows ]

\* The file at cookie_db_path: a database of one of the three schemas, a file that
\* is no cookie database ("other"), or a file that cannot be opened
ExtractStores ==
    { Store(TRUE, "chromium_primary", rows) : rows \in SeqsUpTo(ChromeRows, MaxRows) }
    \cup { Store(TRUE, "chromium_reduced", rows) : rows \in SeqsUpTo(ReducedRows, MaxRows) }
    \cup { Store(TRUE, "firefox", rows) : rows \in SeqsUpTo(FirefoxRows, MaxRows) }
    \cup { Store(TRUE, "other", << >>) }
    \cup { Store(FALSE, format, << >>) : format \in { "chromium_primary", "firefox" } }

\* The browser argument of the constructor
ExtractBrowsers == { "Chrome", "edge", "firefox", "safari" }

\* After CookieExtractor(browser, custom_path) with a path that exists
InitExtract ==
    /\ pc = "constructed"
    /\ browser \in { Lower(b) : b \in ExtractBrowsers }
    /\ store \in ExtractStores
    /\ cookies = << >>
    /\ clock = << >>
    /\ domain_index = {}
    /\ result = << >>
    /\ tp_result = << >>
    /\ run = << >>
    /\ NoPasses

NextExtract == extract

SpecExtract == InitExtract /\ [][NextExtract]_vars

(***************************************************************************)
(* A multi-browser run: main.py and scripts/analysis.py                    *)
(***************************************************************************)

\* CookieExtractor(browser, custom_path) raises: without a custom path the database
\* is located, which raises for firefox (self.profile is never set) and for a browser
\* that is not supported; a custom path raises when nothing exists there
ConstructorRaises(b, path) ==
    IF path = "none" THEN ~(b = "chrome" \/ b = "edge") ELSE path = "missing"

\* all_cookies[browser] = cookies: analysis.py stores every list, main.py the
\* non-empty ones
Stored(driver, all_cookies, k, list) ==
    IF driver = "analysis" \/ list # << >>
    THEN [ m \in DOMAIN all_cookies \cup { k } |-> IF m = k THEN list ELSE all_cookies[m] ]
    ELSE all_cookies

\* Where the run continues after its extraction loop: main.py returns False when no
\* browser yielded a cookie
AfterExtraction(driver, all_cookies) ==
    IF driver = "main" /\ DOMAIN all_cookies = {} THEN "returned" ELSE "classify"

\* One iteration of the extraction loop (main.py:31-54, analysis.py:43-47): main.py
\* catches what the iteration raises, analysis.py lets it end the run
run_extract_step ==
    /\ pc = "run"
    /\ run.phase = "extract"
    /\ LET entry == run.browsers[run.i]
           b == Lower(entry.name)
           failed == ConstructorRaises(b, entry.path)
           list == ExtractReturns(b, entry.store).value
           all_cookies == IF failed THEN run.all_cookies
                          ELSE Stored(run.driver, run.all_cookies, run.i, list)
           last == run.i = Len(run.browsers)
       IN  run' = [ run EXCEPT
                      !.phase = IF failed /\ run.driver = "analysis" THEN "raised"
                                ELSE IF last THEN AfterExtraction(run.driver, all_cookies)
                                ELSE "extract",
                      !.i = IF failed /\ run.driver = "analysis" THEN run.i ELSE run.i + 1,
                      !.extracted = IF failed THEN run.extracted ELSE run.extracted \cup { run.i },
                      !.all_cookies = all_cookies ]
    /\ UNCHANGED << pc, cookies, clock, domain_index, result, tp_result, browser, store >>
    /\ UNCHANGED passVars

\* The entries of all_cookies the classification loop has not visited yet
Unvisited == { k \in DOMAIN run.all_cookies : k > run.j }

\* One iteration of the classification loop (main.py:65-72, analysis.py:63-79):
\* analysis.py skips an empty list, the others are handed to classify_cookies
run_classify_step ==
    /\ pc = "run"
    /\ run.phase = "classify"
    /\ Unvisited # {}
    /\ LET k == CHOOSE m \in Unvisited : \A n \in Unvisited : m <= n
       IN  run' = [ run EXCEPT
                      !.j = k,
                      !.classified = IF run.all_cookies[k] = << >> THEN run.classified
                                     ELSE run.classified \cup { k } ]
    /\ UNCHANGED << pc, cookies, clock, domain_index, result, tp_result, browser, store >>
    /\ UNCHANGED passVars

\* The classification loop is over
run_return ==
    /\ pc = "run"
    /\ run.phase = "classify"
    /\ Unvisited = {}
    /\ run' = [ run EXCEPT !.phase = "returned" ]
    /\ UNCHANGED << pc, cookies, clock, domain_index, result, tp_result, browser, store >>
    /\ UNCHANGED passVars

\* Longest list of browsers of a run
MaxBrowsers == 2

\* A browser of the list, the custom path given for it ("none": the default
\* location) and the file found at the path used
RunEntry(name, path, st) == [ name |-> name, path |-> path, store |-> st ]

RunChromeStore ==
    Store(TRUE, "chromium_primary",
          << << ".example.com", "sid", "v", "/", Micros(153654, 70800, 0), 1, 1,
                Micros(153000, 0, 0), Micros(153100, 0, 500000), 1, 1, 0, 2 >> >>)

RunEdgeStore ==
    Store(TRUE, "chromium_reduced",
          << << "tracker.net", "_ga", "v", "/", Micros(153654, 70800, 0), 1, 0,
                Micros(153000, 0, 0), Micros(153100, 0, 0), 1, 1 >> >>)

RunFirefoxStore ==
    Store(TRUE, "firefox",
          << << ".example.com", "sid", "v", "/", Seconds(20400, 0, 0), 1, 1,
                Micros(19000, 0, 0), Micros(19999, 0, 500000) >> >>)

RunEntries ==
    { RunEntry("chrome", "none", RunChromeStore),
      RunEntry("chrome", "none", Store(FALSE, "chromium_primary", << >>)),
      RunEntry("chrome", "present", Store(TRUE, "chromium_primary", << >>)),
      RunEntry("Firefox", "none", RunFirefoxStore),
      RunEntry("Firefox", "present", RunFirefoxStore),
      RunEntry("Firefox", "missing", Store(FALSE, "firefox", << >>)),
      RunEntry("edge", "none", RunEdgeStore),
      RunEntry("edge", "present", Store(TRUE, "other", << >>)),
      RunEntry("safari", "none", Store(FALSE, "firefox", << >>)) }

\* The lists of browsers a driver can be run on: each browser once; custom paths
\* exist in main.py only
RunBrowsers(driver) ==
    { bs \in SeqsUpTo(RunEntries, MaxBrowsers) :
        /\ Len(bs) >= 1
        /\ \A m, n \in 1..Len(bs) : bs[m].name = bs[n].name => m = n
        /\ driver = "analysis" => \A m \in 1..Len(bs) : bs[m].path = "none" }

InitRun ==
    /\ pc = "run"
    /\ \E driver \in { "main", "analysis" } :
          \E bs \in RunBrowsers(driver) :
              run = [ driver |-> driver, browsers |-> bs, phase |-> "extract", i |-> 1,
                      j |-> 0, extracted |-> {}, all_cookies |-> << >>, classified |-> {} ]
    /\ browser = ""
    /\ store = << >>
    /\ cookies = << >>
    /\ clock = << >>
    /\ domain_index = {}
    /\ result = << >>
    /\ tp_result = << >>
    /\ NoPasses

NextRun == run_extract_step \/ run_classify_step \/ run_return

SpecRun == InitRun /\ [][NextRun]_vars

(***************************************************************************)
(* An extraction pass step by step: _extract_from_chrome and               *)
(* _extract_from_firefox over the files on disk, one or two passes at once *)
(***************************************************************************)

\* Path.home() / ".cookie_extractor_temp"
TempDir == "~/.cookie_extractor_temp/"

\* temp_dir / f"temp_{self.browser}_cookies.db"  and  temp_dir / "temp_firefox_cookies.db"
TempPath(b) ==
    IF b = "firefox" THEN TempDir \o "temp_firefox_cookies.db"
    ELSE TempDir \o "temp_" \o b \o "_cookies.db"

\* A file: what it holds and the pass that created it (0: it was there before)
File(content, creator) == [ exists |-> TRUE, content |-> content, creator |-> creator ]
NoFile == [ exists |-> FALSE, content |-> Store(FALSE, "other", << >>), creator |-> 0 ]

\* The database sqlite3.connect creates at a path where no file is: it has no table
EmptyDatabase == Store(TRUE, "empty", << >>)

\* What a copy leaves at the destination when it raises after creating it
PartialCopy == Store(TRUE, "other", << >>)

\* shutil.copy2(src, dst): it copies, it raises before the destination is created
\* (same file, source not readable, directory not writable), or it raises after
PossibleCopies(d, src, dst) ==
    IF src = dst \/ ~d[src].exists \/ ~d[src].content.readable
    THEN { "error" }
    ELSE { "copied", "partial", "error" }

\* The pass p touches a snapshot file that another pass created
Foreign(d, path, p) == d[path].exists /\ d[path].creator \notin { 0, p }

\* Lines 136-146 and 199-208: the snapshot copy, or the live file when it fails
pass_copy(p) ==
    /\ pc = "passes"
    /\ passes[p].pc = "start"
    /\ LET src == passes[p].cookie_db_path
           dst == TempPath(passes[p].browser)
       IN  \E outcome \in PossibleCopies(disk, src, dst) :
              /\ disk' = IF outcome = "copied" THEN [ disk EXCEPT ![dst] = File(disk[src].content, p) ]
                         ELSE IF outcome = "partial" THEN [ disk EXCEPT ![dst] = File(PartialCopy, p) ]
                         ELSE disk
              /\ passes' = [ passes EXCEPT
                               ![p].pc = "copied",
                               ![p].temp_db = IF outcome = "copied" THEN dst ELSE src,
                               ![p].foreign = IF outcome # "error" /\ Foreign(disk, dst, p)
                                              THEN @ \cup { "overwrite" } ELSE @ ]
    /\ UNCHANGED << pc, cookies, clock, domain_index, result, tp_result, browser, store, run, stats >>

\* sqlite3.connect(temp_db): it raises when the file cannot be opened, and creates
\* an empty database where no file is
pass_connect(p) ==
    /\ pc = "passes"
    /\ passes[p].pc = "copied"
    /\ LET path == passes[p].temp_db
           opens == ~disk[path].exists \/ disk[path].content.readable
       IN  /\ disk' = IF disk[path].exists THEN disk
                      ELSE [ disk EXCEPT ![path] = File(EmptyDatabase, p) ]
           /\ passes' = [ passes EXCEPT
                            ![p].pc = IF opens THEN "connected" ELSE "cleanup",
                            ![p].conn = IF opens THEN "open" ELSE "none",
                            ![p].conn_path = IF opens THEN path ELSE @,
                            ![p].conn_content = IF opens THEN disk'[path].content ELSE @ ]
    /\ UNCHANGED << pc, cookies, clock, domain_index, result, tp_result, browser, store, run, stats >>

\* cursor.execute of one column list against what the file holds
QueryOutcome(st, columns) ==
    IF st.format = "other" THEN "DatabaseError"
    ELSE IF \/ columns = "primary" /\ PrimaryQueryOk(st)
            \/ columns = "reduced" /\ (PrimaryQueryOk(st) \/ ReducedQueryOk(st))
            \/ columns = "firefox" /\ FirefoxQueryOk(st)
    THEN "rows"
    ELSE "OperationalError"

\* The rows a column list returns (the reduced list leaves the last two columns out)
QueryRows(st, columns) ==
    IF columns = "reduced" THEN [ k \in 1..Len(st.rows) |-> SubSeq(st.rows[k], 1, 11) ]
    ELSE st.rows

\* Variant: a failed reduced query is tried again
AfterQuery_retries(columns, outcome) ==
    IF outcome = "rows" THEN "rows"
    ELSE IF outcome = "OperationalError" THEN "fallback"
    ELSE "cleanup"

\* Where the pass goes after a query: only sqlite3.OperationalError of the primary
\* column list leads to the reduced one; every other exception ends the pass
AfterQuery(columns, outcome) ==
    IF outcome = "rows" THEN "rows"
    ELSE IF columns = "primary" /\ outcome = "OperationalError" THEN "fallback"
    ELSE "cleanup"

\* What the connection of pass p reads: the file at its path, or what it opened when
\* the file has been removed since
Reads(p) ==
    IF disk[passes[p].conn_path].exists THEN disk[passes[p].conn_path].content
    ELSE passes[p].conn_content

\* passes after pass p has executed one column list
Queried(p, columns) ==
    LET outcome == QueryOutcome(Reads(p), columns)
    IN  [ passes EXCEPT
            ![p].pc = AfterQuery(columns, outcome),
            ![p].queries = Append(@, [ columns |-> columns, outcome |-> outcome ]),
            ![p].fetched = IF outcome = "rows" THEN QueryRows(Reads(p), columns) ELSE @,
            ![p].foreign = IF Foreign(disk, passes[p].conn_path, p) THEN @ \cup { "read" } ELSE @ ]

\* The first cursor.execute of the pass (lines 154-159, 215-219)
pass_query_first(p) ==
    /\ pc = "passes"
    /\ passes[p].pc = "connected"
    /\ passes' = Queried(p, IF passes[p].browser = "firefox" THEN "firefox" ELSE "primary")
    /\ UNCHANGED << pc, cookies, clock, domain_index, result, tp_result, browser, store, run,
                    disk, stats >>

\* The cursor.execute of the except sqlite3.OperationalError clause (lines 160-166)
pass_query_reduced(p) ==
    /\ pc = "passes"
    /\ passes[p].pc = "fallback"
    /\ passes' = Queried(p, "reduced")
    /\ UNCHANGED << pc, cookies, clock, domain_index, result, tp_result, browser, store, run,
                    disk, stats >>

\* The row loop and conn.close() (lines 167-184, 220-235): a row that raises ends the
\* loop before conn.close()
pass_map_rows(p) ==
    /\ pc = "passes"
    /\ passes[p].pc = "rows"
    /\ LET rows == passes[p].fetched
           firefox == passes[p].browser = "firefox"
           raising == { k \in 1..Len(rows) :
                          IF firefox THEN FirefoxRowRaises(rows[k]) ELSE ChromeRowRaises(rows[k]) }
       IN  passes' = [ passes EXCEPT
                         ![p].pc = "cleanup",
                         ![p].cookies = [ k \in 1..Appended(rows, raising) |->
                                            IF firefox THEN FirefoxCookie(rows[k])
                                            ELSE ChromeCookie(rows[k]) ],
                         ![p].conn = IF raising = {} THEN "closed" ELSE @ ]
    /\ UNCHANGED << pc, cookies, clock, domain_index, result, tp_result, browser, store, run,
                    disk, stats >>

\* Variant: the finally clause removes temp_db whatever it names
RemovesSnapshot_unconditional(temp_db, cookie_db_path) == temp_db # "None"

\* if temp_db and temp_db != self.cookie_db_path
RemovesSnapshot(temp_db, cookie_db_path) == temp_db # "None" /\ temp_db # cookie_db_path

\* Some connection is open on the file: os.remove then succeeds on POSIX and raises
\* on Windows, where the except clause of the cleanup swallows it
InUse(path) == \E q \in DOMAIN passes : passes[q].conn = "open" /\ passes[q].conn_path = path

\* The finally clause (lines 187-193, 238-244) and the return: a connection the pass
\* did not close is closed when the interpreter collects it, or stays open
pass_cleanup(p) ==
    /\ pc = "passes"
    /\ passes[p].pc = "cleanup"
    /\ LET path == passes[p].temp_db
           attempted == RemovesSnapshot(path, passes[p].cookie_db_path) /\ disk[path].exists
       IN  \E removed \in { attempted } \cup { attempted /\ ~InUse(path) } :
           \E collected \in { TRUE } \cup { passes[p].conn # "open" } :
              /\ disk' = IF removed THEN [ disk EXCEPT ![path] = NoFile ] ELSE disk
              /\ passes' = [ passes EXCEPT
                               ![p].pc = "returned",
                               ![p].conn = IF @ = "open" /\ collected THEN "closed" ELSE @,
                               ![p].foreign = IF removed /\ Foreign(disk, path, p)
                                              THEN @ \cup { "delete" } ELSE @ ]
    /\ UNCHANGED << pc, cookies, clock, domain_index, result, tp_result, browser, store, run, stats >>

\* The browsers whose pass is run
PassBrowsers == { "chrome", "edge", "firefox" }

\* Where the two cookie databases are
PathA == "/profiles/a/Cookies"
PathB == "/profiles/b/Cookies"

Paths == { PathA, PathB } \cup { TempPath(b) : b \in PassBrowsers }

\* A cookies table whose one row has a text in creation_utc
PassTextStore ==
    Store(TRUE, "chromium_primary",
          << << "stat.example.com", "uid", "v", "/", Micros(160000, 43200, 250000), 0, 1,
                Text, Micros(153100, 0, 0), 1, 1, 1, 2 >> >>)

\* What a cookie database of a single pass can be
PassStores ==
    { RunChromeStore, RunEdgeStore, RunFirefoxStore, PassTextStore,
      Store(TRUE, "other", << >>), Store(FALSE, "chromium_primary", << >>) }

\* What the two cookie databases of two concurrent passes can be
PairStores == { RunChromeStore, RunEdgeStore, RunFirefoxStore }

\* A pass about to start: CookieExtractor(b, custom_path = path).extract() has reached
\* the pass of the dialect; original remembers what the database held
PassStart(b, path, st) ==
    [ browser |-> b, cookie_db_path |-> path, original |-> st, pc |-> "start",
      temp_db |-> "None", conn |-> "none", conn_path |-> "None", conn_content |-> st,
      queries |-> << >>, fetched |-> << >>, cookies |-> << >>, foreign |-> {} ]

\* One pass over a database, which may lie where the pass puts its snapshot, or two
\* passes over two databases
InitPass ==
    /\ pc = "passes"
    /\ \/ \E b \in PassBrowsers, st \in PassStores :
             \E path \in { PathA, TempPath(b) } :
                /\ passes = [ q \in { 1 } |-> PassStart(b, path, st) ]
                /\ disk = [ f \in Paths |-> IF f = path THEN File(st, 0) ELSE NoFile ]
       \/ \E b1 \in PassBrowsers, b2 \in PassBrowsers, st1 \in PairStores, st2 \in PairStores :
             /\ passes = [ q \in { 1, 2 } |-> IF q = 1 THEN PassStart(b1, PathA, st1)
                                              ELSE PassStart(b2, PathB, st2) ]
             /\ disk = [ f \in Paths |-> IF f = PathA THEN File(st1, 0)
                                         ELSE IF f = PathB THEN File(st2, 0) ELSE NoFile ]
    /\ stats = << >>
    /\ browser = ""
    /\ store = << >>
    /\ run = << >>
    /\ cookies = << >>
    /\ clock = << >>
    /\ domain_index = {}
    /\ result = << >>
    /\ tp_result = << >>

NextPass ==
    \/ \E p \in DOMAIN passes : pass_copy(p)
    \/ \E p \in DOMAIN passes : pass_connect(p)
    \/ \E p \in DOMAIN passes : pass_query_first(p)
    \/ \E p \in DOMAIN passes : pass_query_reduced(p)
    \/ \E p \in DOMAIN passes : pass_map_rows(p)
    \/ \E p \in DOMAIN passes : pass_cleanup(p)

SpecPass == InitPass /\ [][NextPass]_vars



(***************************************************************************)
(* The rules of the third-party test, as the specification words them.     *)
(***************************************************************************)
\* Two domains with at least two labels each that end in the same two labels
SharesLastTwoLabels(d1, d2) ==
    /\ Len(SplitDot(d1)) >= 2
    /\ Len(SplitDot(d2)) >= 2
    /\ LastTwo(SplitDot(d1)) = LastTwo(SplitDot(d2))

\* d1 equals d2, is a dot-suffix subdomain of d2, or shares its last two labels with d2
RelatedDomains(d1, d2) ==
    d1 = d2 \/ EndsWith(d1, "." \o d2) \/ SharesLastTwoLabels(d1, d2)

Rule1NoDomain(c) == LStripDot(c.domain) = ""

Rule2TrackerDomain(c) ==
    \E i \in 1..Len(expanded_tracking_domains) :
        Contains(expanded_tracking_domains[i], LStripDot(c.domain))

Rule3TrackerName(c) ==
    \E i \in 1..Len(tracking_cookie_names) : c.name = tracking_cookie_names[i]

Rule4SameSiteNoneSecure(c) == c.sameSite = SameSiteNoneCode /\ c.secure = TRUE

Rule5InIndex(c, index) == \E d \in index : RelatedDomains(LStripDot(c.domain), d)

Rule6Keyword(c) ==
    LET lowered == Lower(LStripDot(c.domain))
    IN  \E i \in 1..Len(third_party_patterns) : Contains(third_party_patterns[i], lowered)

\* The verdict of the first applicable rule, in the priority order 1..7
FirstRuleVerdict(c, index) ==
    IF Rule1NoDomain(c) THEN FALSE
    ELSE IF Rule2TrackerDomain(c) THEN TRUE
    ELSE IF Rule3TrackerName(c) THEN TRUE
    ELSE IF Rule4SameSiteNoneSecure(c) THEN TRUE
    ELSE IF Rule5InIndex(c, index) THEN FALSE
    ELSE IF Rule6Keyword(c) THEN TRUE
    ELSE TRUE

\* C1: for every cookie and every Domain Index, _is_third_party_cookie returns the
\* verdict of the first applicable rule in the order no domain, tracker domain,
\* tracker name, SameSite=None with Secure, Domain Index, keyword, default; an absent
\* or none sameSite never makes rule 4 apply.
C1_FirstRuleWins ==
    pc = "tp_done" =>
        /\ tp_result.tp = FirstRuleVerdict(cookies[1], domain_index)
        /\ (cookies[1].sameSite \in { SameSiteAbsent, SameSiteNull }
              => ~Rule4SameSiteNoneSecure(cookies[1]))

\* C1 witness: rule 4 and rule 5 both apply to the cookie, no earlier rule does, and
\* the test has answered third-party
C1_Witness ==
    /\ pc = "tp_done"
    /\ ~Rule1NoDomain(cookies[1])
    /\ ~Rule2TrackerDomain(cookies[1])
    /\ ~Rule3TrackerName(cookies[1])
    /\ Rule4SameSiteNoneSecure(cookies[1])
    /\ Rule5InIndex(cookies[1], domain_index)
    /\ tp_result.tp = TRUE

(***************************************************************************)
(* Claims about a classified batch.                                        *)
(***************************************************************************)
\* Cookie i matches none of the third-party rules 2 to 4
NoTrackerRule(c) ==
    ~Rule2TrackerDomain(c) /\ ~Rule3TrackerName(c) /\ ~Rule4SameSiteNoneSecure(c)

\* The domain of cookie i is related to the domain of another cookie of the batch
RelatedToOther(cs, i) ==
    \E j \in 1..Len(cs) :
        j # i /\ RelatedDomains(LStripDot(cs[i].domain), LStripDot(cs[j].domain))

\* C2: in a classified batch, a cookie with a non-empty domain that matches none of
\* rules 2 to 4 and whose domain is related to the domain of no other cookie of the
\* batch is classified third-party.
C2_UnrelatedIsThirdParty ==
    pc = "classified" =>
        \A i \in 1..Len(cookies) :
            ( /\ ~Rule1NoDomain(cookies[i])
              /\ NoTrackerRule(cookies[i])
              /\ ~RelatedToOther(cookies, i) )
            => cookies[i].classification.is_third_party = TRUE

\* C3: in a classified batch, a cookie whose domain is related to the domain of
\* another cookie of the batch and which matches none of rules 2 to 4 is classified
\* first-party, also when its domain holds a rule-6 keyword.
C3_RelatedIsFirstParty ==
    pc = "classified" =>
        \A i \in 1..Len(cookies) :
            ( NoTrackerRule(cookies[i]) /\ RelatedToOther(cookies, i) )
            => cookies[i].classification.is_third_party = FALSE

\* C3 witness: a cookie with a keyword in its domain, related to another cookie with
\* a different domain, has been classified first-party
C3_Witness ==
    /\ pc = "classified"
    /\ \E i \in 1..Len(cookies) :
          /\ NoTrackerRule(cookies[i])
          /\ Rule6Keyword(cookies[i])
          /\ \E j \in 1..Len(cookies) :
                /\ LStripDot(cookies[j].domain) # LStripDot(cookies[i].domain)
                /\ RelatedDomains(LStripDot(cookies[i].domain), LStripDot(cookies[j].domain))
          /\ cookies[i].classification.is_third_party = FALSE


\* C5: every cookie classified third-party is classified tracking; so in the batch
\* classify_cookies returns, every cookie of non_tracking is first-party and
\* summary.third_party_cookies <= summary.tracking_cookies.
C5_ThirdPartyIsTracking ==
    /\ pc \in { "classified", "reported" } =>
          /\ \A i \in 1..Len(cookies) :
                cookies[i].classification.is_third_party = TRUE
                   => cookies[i].classification.is_tracking = TRUE
          /\ \A i \in 1..Len(result.non_tracking) :
                result.non_tracking[i].classification.is_third_party = FALSE
    /\ pc = "classified" =>
          result.summary.third_party_cookies <= result.summary.tracking_cookies

\* C5 witness: a classified batch holds a cookie that is tracking for the single
\* reason that it is third-party
C5_Witness ==
    /\ pc = "classified"
    /\ result.summary.third_party_cookies >= 1
    /\ \E i \in 1..Len(cookies) :
          /\ cookies[i].classification.is_third_party = TRUE
          /\ cookies[i].classification.is_tracking = TRUE
          /\ Len(cookies[i].classification.reasons) = 1

\* C7: in the batch classify_cookies returns, first_party_cookies +
\* third_party_cookies = total_cookies, and the equality still holds on the same
\* summary after generate_report has run.
C7_PartySplitAddsUp ==
    pc \in { "classified", "reported" } =>
        result.summary.first_party_cookies + result.summary.third_party_cookies
            = result.summary.total_cookies

\* C7 witness: generate_report has run and its recount has changed third_party_cookies
C7_Witness ==
    /\ pc = "reported"
    /\ result.summary.third_party_cookies # CountThirdParty(cookies)
    /\ result.summary.total_cookies = Len(cookies)

\* Number of positions of the sequence that hold the cookie
Occurrences(c, cs) == Cardinality({ i \in 1..Len(cs) : cs[i] = c })

\* C8: classify_cookies partitions its input: every input cookie is in exactly one
\* of tracking and non_tracking, in tracking iff its is_tracking is true, so
\* tracking_cookies + non_tracking_cookies = total_cookies = number of input cookies.
C8_Partition ==
    pc \in { "classified", "reported" } =>
        /\ \A i \in 1..Len(cookies) :
              /\ Occurrences(cookies[i], result.tracking)
                    + Occurrences(cookies[i], result.non_tracking)
                 = Occurrences(cookies[i], cookies)
              /\ (Occurrences(cookies[i], result.tracking) > 0
                    <=> cookies[i].classification.is_tracking = TRUE)
        /\ Len(result.tracking) + Len(result.non_tracking) = Len(cookies)
        /\ result.summary.tracking_cookies = Len(result.tracking)
        /\ result.summary.non_tracking_cookies = Len(result.non_tracking)
        /\ result.summary.tracking_cookies + result.summary.non_tracking_cookies
              = result.summary.total_cookies
        /\ result.summary.total_cookies = Len(cookies)

\* C8 witness: a classified batch with a cookie in each of the two sequences
C8_Witness ==
    /\ pc = "classified"
    /\ Len(result.tracking) >= 1
    /\ Len(result.non_tracking) >= 1


(***************************************************************************)
(* The tracking signals, as the specification words them.                  *)
(***************************************************************************)
Sig1Prefix(c) ==
    LET lowered == Lower(c.name)
    IN  \E i \in 1..Len(tracking_prefixes) : StartsWith(lowered, tracking_prefixes_lower[i])

Sig2Identifier(c) ==
    LET lowered == Lower(c.name)
    IN  \E i \in 1..Len(identifier_terms) : Contains(identifier_terms[i], lowered)

Sig3TrackingDomain(c) ==
    \E i \in 1..Len(tracking_domains) : Contains(tracking_domains[i], LStripDot(c.domain))

Sig6Fingerprinting(c) ==
    LET lowered == Lower(c.name)
    IN  \E i \in 1..Len(fp_terms) : Contains(fp_terms[i], lowered)

\* expires is present and lies more than k days (more than k * 86400 seconds) after n
MoreThanDaysAfter(e, n, k) ==
    /\ e.num
    /\ \/ e.day - n.day > k
       \/ e.day - n.day = k /\ e.sec > n.sec

\* expires is present, is a date up to 9999-12-31, and lies at least k days
\* (at least k * 86400 seconds) after n
AtLeastDaysAfter(e, n, k) ==
    /\ e.num
    /\ e.day <= MaxDateDay
    /\ \/ e.day - n.day > k
       \/ e.day - n.day = k /\ e.sec >= n.sec

\* Every feature flag tells exactly whether its signal matched, whatever the other signals
FeaturesFollowSignals(c, index, cl, s5) ==
    /\ cl.features.known_tracker          = (Sig1Prefix(c) \/ Sig3TrackingDomain(c))
    /\ cl.features.suspicious_name        = Sig2Identifier(c)
    /\ cl.features.third_party            = FirstRuleVerdict(c, index)
    /\ cl.features.long_expiration        = s5
    /\ cl.features.fingerprinting_related = Sig6Fingerprinting(c)

AnySignal(c, index, s5) ==
    \/ Sig1Prefix(c)
    \/ Sig2Identifier(c)
    \/ Sig3TrackingDomain(c)
    \/ FirstRuleVerdict(c, index)
    \/ s5
    \/ Sig6Fingerprinting(c)

\* C4 as stated: every signal is evaluated and is_tracking is true iff one of the six
\* matches, the fifth being "expires is more than 365 days in the future".
C4_Original ==
    pc = "cookie_done" =>
        LET s5 == MoreThanDaysAfter(cookies[1].expires, clock[1], LongExpirationDays)
        IN  /\ result.is_tracking = AnySignal(cookies[1], domain_index, s5)
            /\ FeaturesFollowSignals(cookies[1], domain_index, result, s5)

\* C4 as amended: every signal is evaluated without short-circuiting and is_tracking is
\* true iff one of the six matches, the fifth being "expires is a date up to the year
\* 9999 that lies at least 366 days in the future" (its whole-day distance exceeds 365).
C4_AllSignalsEvaluated ==
    pc = "cookie_done" =>
        LET s5 == AtLeastDaysAfter(cookies[1].expires, clock[1], LongExpirationDays + 1)
        IN  /\ result.is_tracking = AnySignal(cookies[1], domain_index, s5)
            /\ FeaturesFollowSignals(cookies[1], domain_index, result, s5)

\* C4 witness: the prefix, the long-expiration and the fingerprinting signal match the
\* same cookie and each has left its mark on the classification
C4_Witness ==
    /\ pc = "cookie_done"
    /\ Sig1Prefix(cookies[1])
    /\ Sig6Fingerprinting(cookies[1])
    /\ AtLeastDaysAfter(cookies[1].expires, clock[1], LongExpirationDays + 1)
    /\ result.is_tracking = TRUE
    /\ result.features.known_tracker = TRUE
    /\ result.features.long_expiration = TRUE
    /\ result.features.fingerprinting_related = TRUE

\* The signals that fired on the classified cookie, in evaluation order
FiredSignals(c, cl) ==
    << Sig1Prefix(c), cl.features.suspicious_name, Sig3TrackingDomain(c),
       cl.is_third_party, cl.features.long_expiration, cl.features.fingerprinting_related >>

\* The text r is a reason of signal k
ReasonOfSignal(r, k) ==
    CASE k = 1 -> StartsWith(r, "Name starts with tracking prefix '")
      [] k = 2 -> r = "Name contains tracking identifiers"
      [] k = 3 -> StartsWith(r, "Domain contains known tracking pattern '")
      [] k = 4 -> \/ StartsWith(r, "Domain contains known tracking pattern '")
                  \/ StartsWith(r, "Cookie name matches known tracking cookie '")
                  \/ r = "SameSite=None and Secure attribute indicates third-party usage"
                  \/ StartsWith(r, "Domain contains known third-party pattern '")
                  \/ r = "Domain does not match any first-party domain and is likely third-party"
      [] k = 5 -> StartsWith(r, "Long-lived cookie (expires in ")
      [] k = 6 -> r = "Cookie name suggests fingerprinting"

\* C6: reasons holds exactly one non-empty entry for each signal that fired, in the
\* order prefix, identifier name, tracking domain, third-party, long expiration,
\* fingerprinting; it is empty iff is_tracking is false and has at most six entries.
C6_ReasonsPerSignal ==
    pc = "cookie_done" =>
        LET fired == FiredSignals(cookies[1], result)
            Fired(k) == fired[k]
            kinds == SelectSeq(<< 1, 2, 3, 4, 5, 6 >>, Fired)
        IN  /\ Len(result.reasons) = Len(kinds)
            /\ \A j \in 1..Len(result.reasons) :
                  /\ result.reasons[j] # ""
                  /\ ReasonOfSignal(result.reasons[j], kinds[j])
            /\ (result.reasons = << >>) <=> (result.is_tracking = FALSE)
            /\ Len(result.reasons) <= 6

\* C6 witness: all six signals fired on one cookie and reasons has six entries
C6_Witness ==
    /\ pc = "cookie_done"
    /\ Len(result.reasons) = 6
    /\ result.is_tracking = TRUE

\* What C9 promises of the classification
C9_Promise(cl) ==
    /\ cl.is_tracking = TRUE
    /\ cl.is_third_party = TRUE
    /\ cl.features.known_tracker = TRUE
    /\ cl.features.long_expiration = TRUE
    /\ cl.reasons # << >>

\* C9 as stated: a cookie with a tracking prefix, an expanded tracker domain and an
\* expires more than 365 days after the evaluation instant is tracking, third-party,
\* known_tracker, long_expiration, with reasons, whatever the Domain Index.
C9_Original ==
    pc = "cookie_done" =>
        ( /\ Sig1Prefix(cookies[1])
          /\ Rule2TrackerDomain(cookies[1])
          /\ MoreThanDaysAfter(cookies[1].expires, clock[1], LongExpirationDays)
          => C9_Promise(result) )

\* C9 as amended: a cookie with a tracking prefix, an expanded tracker domain and an
\* expires that is a date up to the year 9999 at least 366 days after the evaluation
\* instant is tracking, third-party, known_tracker, long_expiration, with reasons,
\* whatever the Domain Index.
C9_KnownTracker ==
    pc = "cookie_done" =>
        ( /\ Sig1Prefix(cookies[1])
          /\ Rule2TrackerDomain(cookies[1])
          /\ AtLeastDaysAfter(cookies[1].expires, clock[1], LongExpirationDays + 1)
          => C9_Promise(result) )

\* C9 witness: such a cookie has been classified against a Domain Index that holds
\* its own domain
C9_Witness ==
    /\ pc = "cookie_done"
    /\ Sig1Prefix(cookies[1])
    /\ Rule2TrackerDomain(cookies[1])
    /\ AtLeastDaysAfter(cookies[1].expires, clock[1], LongExpirationDays + 1)
    /\ LStripDot(cookies[1].domain) \in domain_index
    /\ C9_Promise(result)

\* C10 as stated: the long-expiration signal fires exactly when expires is present and
\* more than 365 * 86400 seconds after now.
C10_Original ==
    pc = "cookie_done" =>
        /\ result.features.long_expiration
              = MoreThanDaysAfter(cookies[1].expires, clock[1], LongExpirationDays)
        /\ (result.features.long_expiration = TRUE => result.is_tracking = TRUE)

\* C10 as amended: the long-expiration signal fires (long_expiration and is_tracking
\* true) exactly when expires is present, is a date up to the year 9999, and lies at
\* least 366 days (366 * 86400 seconds) after now; never for an absent expires.
C10_LongExpiration ==
    pc = "cookie_done" =>
        /\ result.features.long_expiration
              = AtLeastDaysAfter(cookies[1].expires, clock[1], LongExpirationDays + 1)
        /\ (result.features.long_expiration = TRUE => result.is_tracking = TRUE)
        /\ (cookies[1].expires.num = FALSE => result.features.long_expiration = FALSE)

\* C10 witness: expires is exactly 366 days after now and the signal has fired
C10_Witness ==
    /\ pc = "cookie_done"
    /\ cookies[1].expires.num = TRUE
    /\ cookies[1].expires.day - clock[1].day = LongExpirationDays + 1
    /\ cookies[1].expires.sec = clock[1].sec
    /\ result.features.long_expiration = TRUE
    /\ result.is_tracking = TRUE


\* C11: for a batch of zero cookies classify_cookies returns empty tracking and
\* non_tracking sequences with total_cookies = 0 and tracking_percentage = 0 (no
\* division is attempted); for every non-empty batch tracking_percentage lies between
\* 0 and 100 (0 and 1000 tenths of a percent).
C11_EmptyBatchAndRange ==
    pc = "classified" =>
        /\ Len(cookies) = 0 =>
              /\ result.tracking = << >>
              /\ result.non_tracking = << >>
              /\ result.summary.total_cookies = 0
              /\ result.summary.tracking_percentage = 0
        /\ Len(cookies) > 0 =>
              /\ result.summary.tracking_percentage >= 0
              /\ result.summary.tracking_percentage <= 1000

\* C11 witness: classify_cookies has returned for the batch of zero cookies
C11_Witness ==
    /\ pc = "classified"
    /\ Len(cookies) = 0
    /\ result.summary.total_cookies = 0
    /\ result.summary.tracking_percentage = 0

\* The fields of a Cookie record
CookieFields ==
    { "domain", "name", "value", "path", "expires", "secure", "httpOnly", "sameSite",
      "created", "lastAccessed", "session", "persistent", "sourceScheme" }

\* C19: classify_cookies changes no field of an input cookie: every field the cookie
\* had before the call has its value after it, and the one change to the cookie is
\* the classification attached to it.
C19_FieldsUntouched ==
    [][ (pc = "start" /\ pc' = "classified") =>
          /\ Len(cookies') = Len(cookies)
          /\ \A i \in 1..Len(cookies) :
                /\ CookieFields \subseteq DOMAIN cookies[i]
                /\ DOMAIN cookies'[i] = DOMAIN cookies[i] \cup { "classification" }
                /\ \A f \in DOMAIN cookies[i] : cookies'[i][f] = cookies[i][f] ]_vars

\* C19 witness: a cookie whose domain has a leading dot carries its classification
\* and still has that domain
C19_Witness ==
    /\ pc = "classified"
    /\ \E i \in 1..Len(cookies) :
          /\ "classification" \in DOMAIN cookies[i]
          /\ CookieFields \subseteq DOMAIN cookies[i]
          /\ StartsWith(cookies[i].domain, ".")

\* C20: stripping the leading dots of a domain is idempotent, and a normalised domain
\* never starts with a dot.
C20_NormaliseIdempotent ==
    pc = "tp_done" =>
        LET normal == LStripDot(cookies[1].domain)
        IN  /\ LStripDot(normal) = normal
            /\ ~StartsWith(normal, ".")

\* C20 witness: the third-party test has normalised a domain with two leading dots
C20_Witness ==
    /\ pc = "tp_done"
    /\ StartsWith(cookies[1].domain, "..")
    /\ ~StartsWith(LStripDot(cookies[1].domain), ".")


\* The query of the pass for browser b returns the rows of the store
QueryReturnsRows(b, st) ==
    \/ (b = "chrome" \/ b = "edge") /\ (PrimaryQueryOk(st) \/ ReducedQueryOk(st))
    \/ b = "firefox" /\ FirefoxQueryOk(st)

\* C12: every extracted record, of either dialect and for every raw row, has
\* session true if and only if expires is absent or zero, and persistent = not session.
C12_SessionIffNoExpiry ==
    pc = "extracted" =>
        \A k \in 1..Len(cookies) :
            /\ cookies[k].session <=> (cookies[k].expires = PyNone \/ IsZero(cookies[k].expires))
            /\ cookies[k].persistent = ~cookies[k].session

\* C13: no extracted record, of either dialect, has a domain that starts with '.'.
C13_DomainStripped ==
    pc = "extracted" => \A k \in 1..Len(cookies) : ~StartsWith(cookies[k].domain, ".")

\* The store cannot be opened, matches no column set of the dialect, or the browser
\* is not recognised
StoreFailure(b, st) == ~SupportedBrowser(b) \/ ~QueryReturnsRows(b, st)

\* What extract() returns for each readable store of zero cookies
EmptyStoreResults ==
    UNION { { ExtractReturns(b, st) :
                st \in { e \in ExtractStores : e.rows = << >> /\ QueryReturnsRows(b, e) } } :
            b \in { "chrome", "edge", "firefox" } }

\* C14: when the store cannot be opened, matches neither column set, or the browser
\* is not recognised, what extract() returns differs from what it returns for a
\* readable store that holds zero cookies.
C14_FailureDistinguishable ==
    (pc = "extracted" /\ StoreFailure(browser, store)) => result \notin EmptyStoreResults

\* C16: a timestamp that fails to convert on one row is not fatal: the pass returns
\* one record for every row of the store, the rows after the failing one included.
C16_ConversionNonFatal ==
    (pc = "extracted" /\ QueryReturnsRows(browser, store)) =>
        Len(result.value) = Len(store.rows)

\* C17: for a Chromium store without the samesite and source_scheme columns the pass
\* does not abort: it returns one record per row, the common fields as the primary
\* schema gives them and sameSite and sourceScheme none.
C17_ReducedSchema ==
    (pc = "extracted" /\ (browser = "chrome" \/ browser = "edge") /\ ReducedQueryOk(store)) =>
        /\ Len(result.value) = Len(store.rows)
        /\ \A k \in 1..Len(result.value) :
              LET full == ChromeCookie(store.rows[k] \o << 0, 0 >>)
              IN  /\ result.value[k].sameSite = SameSiteNull
                  /\ result.value[k].sourceScheme = SameSiteNull
                  /\ \A f \in DOMAIN full \ { "sameSite", "sourceScheme" } :
                        result.value[k][f] = full[f]

\* The whole seconds of a number as << high, low >>: high * 10^6 + low
SecondsLimbs(v) ==
    LET a == v.day * 864
        rest == (a % 10000) * 100 + v.sec
    IN  << (a \div 10000) + (rest \div 1000000), rest % 1000000 >>

AddLimbs(x, y) ==
    << x[1] + y[1] + ((x[2] + y[2]) \div 1000000), (x[2] + y[2]) % 1000000 >>

\* 11644473600
ChromeEpochLimbs == << 11644, 473600 >>

\* y is what the spec's conversion gives for the cell x: none for 0 or an absent
\* value, otherwise x / 1000000 - 11644473600
ConvertsAsSpecified(x, y) ==
    IF x.kind = "none" \/ IsZero(x) THEN y = PyNone
    ELSE /\ y.kind = "seconds"
         /\ AddLimbs(SecondsLimbs(y), ChromeEpochLimbs) = SecondsLimbs(x)
         /\ y.usec = x.usec

\* The Chrome value 13275776400000000
IsExampleValue(x) == x.kind = "micros" /\ SecondsLimbs(x) = << 13275, 776400 >> /\ x.usec = 0

\* The conversion of every time cell of every extracted Chromium row is as
\* specified, and the example value converts to the seconds given
ChromeTimesConvert(example_seconds) ==
    (pc = "extracted" /\ (browser = "chrome" \/ browser = "edge")) =>
        \A k \in 1..Len(cookies) :
            /\ ConvertsAsSpecified(store.rows[k][5], cookies[k].expires)
            /\ ConvertsAsSpecified(store.rows[k][8], cookies[k].created)
            /\ ConvertsAsSpecified(store.rows[k][9], cookies[k].lastAccessed)
            /\ IsExampleValue(store.rows[k][5]) =>
                  SecondsLimbs(cookies[k].expires) = example_seconds

\* C18 as stated: the Chrome time conversion returns none for 0 or an absent value,
\* otherwise value / 1000000 - 11644473600, and 13275776400000000 converts to
\* 1631016400.
C18_Original == ChromeTimesConvert(<< 1631, 16400 >>)

\* C18: the Chrome time conversion returns none for 0 or an absent value, otherwise
\* value / 1000000 - 11644473600 for a numeric value, and 13275776400000000 converts
\* to 1631302800.
C18_ChromeTime == ChromeTimesConvert(<< 1631, 302800 >>)

\* C18 witness: a row with expires_utc = 13275776400000000 was extracted as
\* 1631302800, and a zero or absent time cell as none
C18_Witness ==
    /\ pc = "extracted"
    /\ browser = "edge"
    /\ \E k \in 1..Len(cookies) :
          /\ IsExampleValue(store.rows[k][5])
          /\ SecondsLimbs(cookies[k].expires) = << 1631, 302800 >>
    /\ \E k \in 1..Len(cookies) :
          /\ IsZero(store.rows[k][5])
          /\ cookies[k].expires = PyNone


\* The pipeline of browser k of the run meets a per-store error: the extractor cannot
\* be constructed, the store cannot be read or has no supported schema, or the
\* browser is not recognised
PipelineFails(k) ==
    LET entry == run.browsers[k]
    IN  \/ ConstructorRaises(Lower(entry.name), entry.path)
        \/ StoreFailure(Lower(entry.name), entry.store)

\* extract() on the store of browser k returns at least one cookie
YieldsCookies(k) ==
    ExtractReturns(Lower(run.browsers[k].name), run.browsers[k].store).value # << >>

\* The run is over: it returned, or an exception ended it
RunEnded == pc = "run" /\ run.phase \in { "returned", "raised" }

\* C15: in a multi-browser run a per-store error for one browser aborts only that
\* browser's pipeline: every other browser of the list is still extracted and
\* classified.
C15_OthersProceed ==
    RunEnded =>
        \A k \in 1..Len(run.browsers) :
            ~PipelineFails(k) =>
                /\ k \in run.extracted
                /\ YieldsCookies(k) => k \in run.classified


\* C25: summary.unique_domains is the number of distinct normalised cookie domains
\* of the batch; the last-two-label reductions of the Domain Index are not counted.
C25_UniqueDomains ==
    pc \in { "classified", "reported" } =>
        result.summary.unique_domains = Cardinality(ExtractedDomains(cookies))

\* The input fields of a classified cookie
OwnFields(cookie) == [ f \in DOMAIN cookie \ { "classification" } |-> cookie[f] ]

\* C26: with the evaluation instant held fixed, the classification classify_cookies
\* attaches to a cookie depends only on the cookie's own fields: in every batch, at
\* every position, it is the classification the cookie gets in the batch that holds
\* it alone.
C26_OwnFieldsOnly ==
    pc = "classified" =>
        \A i \in 1..Len(cookies) :
            LET own == OwnFields(cookies[i])
            IN  cookies[i].classification =
                    _classify_cookie(own, DomainIndex(<< own >>), clock[i])

\* C26 witness: two cookies of unrelated domains were classified together, one of
\* them the first-party way although its domain holds a third-party keyword
C26_Witness ==
    /\ pc = "classified"
    /\ Len(cookies) = 2
    /\ LStripDot(cookies[1].domain) = "tagx.org"
    /\ LStripDot(cookies[2].domain) = "example.com"
    /\ ~cookies[1].classification.is_third_party

\* C27: after generate_report summary.third_party_cookies is the number of cookies
\* of tracking + non_tracking whose classification is third-party.
C27_ReportKeepsThirdPartyCount ==
    pc = "reported" =>
        result.summary.third_party_cookies =
            CountThirdParty(result.tracking \o result.non_tracking)


\* The passes of the Chromium dialect
ChromiumPasses == { p \in DOMAIN passes : passes[p].browser # "firefox" }

\* C21: a Chromium pass queries the reduced column list only after the primary column
\* list has failed, and at most once: it issues at most two queries, primary then
\* reduced, and when the reduced one fails too the pass ends in failure.
C21_FallbackOnce ==
    \A p \in ChromiumPasses :
        LET q == passes[p].queries
        IN  /\ Len(q) <= 2
            /\ Len(q) >= 1 => q[1].columns = "primary"
            /\ Len(q) = 2 => (q[2].columns = "reduced" /\ q[1].outcome # "rows")
            /\ (Len(q) = 2 /\ q[2].outcome # "rows") =>
                  /\ passes[p].pc \in { "cleanup", "returned" }
                  /\ passes[p].cookies = << >>

\* C21 witness: a Chromium pass has returned after both column lists failed
C21_Witness ==
    \E p \in ChromiumPasses :
        /\ passes[p].pc = "returned"
        /\ Len(passes[p].queries) = 2
        /\ passes[p].queries[1].outcome = "OperationalError"
        /\ passes[p].queries[2].outcome = "OperationalError"

\* C22: on every exit path of a pass no snapshot file the pass created is on disk
\* when the pass has returned.
C22_NoSnapshotLeft ==
    \A p \in DOMAIN passes :
        passes[p].pc = "returned" =>
            \A f \in DOMAIN disk : ~(disk[f].exists /\ disk[f].creator = p)

\* C23: a pass never deletes or writes the original cookie database: the file is
\* there and holds what it held, also when the copy failed and the live file was
\* read, and when the given path is the path of the snapshot.
C23_OriginalUntouched ==
    \A p \in DOMAIN passes :
        disk[passes[p].cookie_db_path] = File(passes[p].original, 0)

\* C23 witness: a pass whose database lies at the snapshot path has read the live
\* file and returned with its cookies
C23_Witness ==
    \E p \in DOMAIN passes :
        /\ passes[p].pc = "returned"
        /\ passes[p].cookie_db_path = TempPath(passes[p].browser)
        /\ passes[p].temp_db = passes[p].cookie_db_path
        /\ passes[p].cookies # << >>
        /\ disk[passes[p].cookie_db_path].exists

\* C24: of two passes over two distinct stores that run concurrently, none reads,
\* overwrites or deletes a snapshot file the other created.
C24_SnapshotOwned ==
    \A p \in DOMAIN passes : passes[p].foreign = {}

\* C28: the connection a pass opened is closed on every exit path: no connection is
\* open once the pass has returned.
C28_ConnectionClosed ==
    \A p \in DOMAIN passes : passes[p].pc = "returned" => passes[p].conn # "open"


\* C29: extract() does not accumulate across calls: after any sequence of calls on an
\* unchanged store the returned list and self.cookies hold exactly one record per
\* row of the store.
C29_NoAccumulation ==
    (pc \in { "extracted", "extracted_again" } /\ QueryReturnsRows(browser, store)) =>
        /\ result.value = cookies
        /\ Len(cookies) = Len(store.rows)


(***************************************************************************)
(* The standalone script extractor: scripts/cookie_extractor.py            *)
(***************************************************************************)
TRACKING_DOMAINS ==
    { "analytics", "tracker", "pixel", "ad.", "ads.", "adservice", "doubleclick",
      "google-analytics", "googletagmanager", "googlesyndication", "facebook",
      "twitter", "linkedin", "yahoo", "criteo", "quantserve", "mediamath",
      "adroll", "taboola", "outbrain", "pubmatic", "rubiconproject",
      "adnxs", "amazon-adsystem", "scorecardresearch", "casalemedia" }

TRACKING_COOKIE_PREFIXES ==
    { "_ga", "_gid", "_gcl", "_fbp", "_uetsid", "_uetvid", "_hjid", "_hj",
      "AMP_TOKEN", "AMCV_", "AMCVS_", "NID", "IDE", "uuid", "UIDR", "VISITOR",
      "segment_", "track", "mp_", "mixpanel", "amplitude", "parsely_",
      "personalization_id", "utag_", "intercom-", "km_", "id" }

\* The "expires" of a cookie without expiry: the str "Session"
SessionMark == Cell("session", 0, 0, 0)

\* A local naive datetime written with a "Z": the instant moved by the UTC offset of
\* the host (datetime.fromtimestamp(t).isoformat() + "Z")
LocalAsUtc(v, utc_offset) ==
    LET t == v.sec + utc_offset
    IN  Seconds(v.day + (t \div 86400), t % 86400, v.usec)

\* timedelta(microseconds=t), fromtimestamp(t) and t / 1000000 raise TypeError for a
\* str; epoch_start + timedelta and fromtimestamp raise past the year 9999
ScriptTimeRaises(b, t) ==
    \/ t.kind = "text"
    \/ IsNumber(t) /\ ~IsZero(t) /\
         IF b \in { "chrome", "edge" }
         THEN t.day - ChromeEpochDays > MaxDateDay
         ELSE ~FromTimestampOk(t)

\* CookieExtractor._format_expires: the date as an ISO string, kept here as the
\* instant the string names (days, seconds and microseconds since 1970-01-01)
_format_expires(b, expires, utc_offset) ==
    IF ~Truthy(expires) THEN SessionMark
    ELSE IF b \in { "chrome", "edge" }
         THEN Seconds(expires.day - ChromeEpochDays, expires.sec, expires.usec)
         ELSE LocalAsUtc(expires, utc_offset)

\* CookieExtractor._format_datetime
_format_datetime(b, timestamp, utc_offset) ==
    IF ~Truthy(timestamp) THEN PyNone
    ELSE IF b \in { "chrome", "edge" }
         THEN Seconds(timestamp.day - ChromeEpochDays, timestamp.sec, timestamp.usec)
         ELSE LocalAsUtc(timestamp, utc_offset)

\* re.match(r'^[A-Za-z0-9%+/=-]+$', value)
MatchesValuePattern(value) ==
    LET class == UpperChars \o LowerChars \o "0123456789%+/=-"
    IN  /\ Len(value) > 0
        /\ \A i \in 1..Len(value) :
               \E j \in 1..Len(class) : CharAt(value, i) = CharAt(class, j)

\* CookieExtractor._is_tracking_cookie: a known prefix of the name, a known tracker
\* in the domain, (expires - now).days > 365, or a value of more than 30 characters
\* of the pattern
_is_tracking_cookie(cookie, now_) ==
    LET days == (cookie.expires.day - now_.day)
                    - (IF cookie.expires.sec < now_.sec THEN 1 ELSE 0)
    IN  \/ \E prefix \in TRACKING_COOKIE_PREFIXES :
               StartsWith(Lower(cookie.name), Lower(prefix))
        \/ \E tracker \in TRACKING_DOMAINS : Contains(tracker, Lower(cookie.domain))
        \/ cookie.expires # SessionMark /\ days > 365
        \/ Len(cookie.value) > 30 /\ MatchesValuePattern(cookie.value)

\* Building the dict of one row raises before anything is appended
ScriptRowRaises(b, row) == \E k \in { 5, 8, 9 } : ScriptTimeRaises(b, row[k])

\* The dict appended to self.cookies: built with isTracking False, then tested
ScriptCookie(b, row, utc_offset, now_) ==
    LET base ==
            [ domain |-> row[1], name |-> row[2], value |-> row[3], path |-> row[4],
              expires |-> _format_expires(b, row[5], utc_offset),
              secure |-> row[6] # 0, httpOnly |-> row[7] # 0,
              created |-> _format_datetime(b, row[8], utc_offset),
              lastAccessed |-> _format_datetime(b, row[9], utc_offset),
              persistent |-> row[11] # 0,
              size |-> Len(row[3]), isTracking |-> FALSE ]
    IN  [ domain |-> base.domain, name |-> base.name, value |-> base.value,
          path |-> base.path, expires |-> base.expires, secure |-> base.secure,
          httpOnly |-> base.httpOnly, created |-> base.created,
          lastAccessed |-> base.lastAccessed, persistent |-> base.persistent,
          size |-> base.size, isTracking |-> _is_tracking_cookie(base, now_) ]

\* self.stats after __init__; domains_listed tells that "domains" and
\* "tracking_domains" have been turned into lists (their order is not kept here)
InitialStats ==
    [ total_cookies |-> 0, tracking_cookies |-> 0,
      domains |-> {}, tracking_domains |-> {}, domains_listed |-> FALSE,
      oldest_cookie |-> << >>, newest_cookie |-> << >>,
      largest_cookie |-> [ name |-> "", size |-> 0 ] ]

\* Order of two instants (the aware datetimes fromisoformat returns)
Earlier(x, y) ==
    \/ x.day < y.day
    \/ x.day = y.day /\ x.sec < y.sec
    \/ x.day = y.day /\ x.sec = y.sec /\ x.usec < y.usec

\* The statistics after one appended cookie, from "domains".add on
UpdateStats(st, cookie) ==
    LET dated == cookie.expires # SessionMark
        older == dated /\ (st.oldest_cookie = << >>
                           \/ Earlier(cookie.expires, st.oldest_cookie[1].expires))
        newer == dated /\ (st.newest_cookie = << >>
                           \/ Earlier(st.newest_cookie[1].expires, cookie.expires))
    IN  [ total_cookies |-> st.total_cookies,
          tracking_cookies |-> st.tracking_cookies + (IF cookie.isTracking THEN 1 ELSE 0),
          domains |-> st.domains \cup { cookie.domain },
          tracking_domains |-> IF cookie.isTracking
                               THEN st.tracking_domains \cup { cookie.domain }
                               ELSE st.tracking_domains,
          domains_listed |-> st.domains_listed,
          oldest_cookie |-> IF older THEN << cookie >> ELSE st.oldest_cookie,
          newest_cookie |-> IF newer THEN << cookie >> ELSE st.newest_cookie,
          largest_cookie |-> IF cookie.size > st.largest_cookie.size
                             THEN [ name |-> cookie.name, domain |-> cookie.domain,
                                    size |-> cookie.size ]
                             ELSE st.largest_cookie ]

\* for row in rows: the list and the statistics when the loop ends. A row that does
\* not convert raises before the append; "domains".add raises AttributeError on a
\* list, after the append and the count of the cookie
RECURSIVE ScriptLoop(_, _, _, _)
ScriptLoop(ctx, rows, cks, st) ==
    IF rows = << >> THEN [ cookies |-> cks, stats |-> st, raised |-> FALSE ]
    ELSE IF ScriptRowRaises(ctx.browser, Head(rows))
         THEN [ cookies |-> cks, stats |-> st, raised |-> TRUE ]
         ELSE LET cookie == ScriptCookie(ctx.browser, Head(rows), ctx.utc_offset, ctx.now)
                  counted == [ st EXCEPT !.total_cookies = @ + 1 ]
              IN  IF st.domains_listed
                  THEN [ cookies |-> Append(cks, cookie), stats |-> counted, raised |-> TRUE ]
                  ELSE ScriptLoop(ctx, Tail(rows), Append(cks, cookie),
                                  UpdateStats(counted, cookie))

\* Python: a < b for two str, the characters ordered by their code points
RECURSIVE StrLess(_, _)
StrLess(a, b) ==
    LET order == "%+-./0123456789=" \o UpperChars \o "_" \o LowerChars
        code(c) == CHOOSE j \in 1..Len(order) : CharAt(order, j) = c
    IN  IF Len(b) = 0 THEN FALSE
        ELSE IF Len(a) = 0 THEN TRUE
        ELSE IF CharAt(a, 1) = CharAt(b, 1)
             THEN StrLess(SubSeq(a, 2, Len(a)), SubSeq(b, 2, Len(b)))
             ELSE code(CharAt(a, 1)) < code(CharAt(b, 1))

\* One cookie put into a list sorted by domain, after the cookies of its domain
RECURSIVE InsertByDomain(_, _)
InsertByDomain(sorted, cookie) ==
    IF sorted = << >> THEN << cookie >>
    ELSE IF StrLess(cookie.domain, Head(sorted).domain)
         THEN << cookie >> \o sorted
         ELSE << Head(sorted) >> \o InsertByDomain(Tail(sorted), cookie)

\* self.cookies.sort(key=lambda c: c["domain"]): a stable sort
RECURSIVE SortByDomain(_)
SortByDomain(cks) ==
    IF cks = << >> THEN << >>
    ELSE InsertByDomain(SortByDomain(SubSeq(cks, 1, Len(cks) - 1)), cks[Len(cks)])

\* The query of the script returns rows: the 11 columns of a Chromium cookies table
\* for chrome and edge, moz_cookies for firefox
ScriptQueryReturns(b, st) ==
    /\ st.readable
    /\ \/ b \in { "chrome", "edge" } /\ st.format \in { "chromium_primary", "chromium_reduced" }
       \/ b = "firefox" /\ st.format = "firefox"

\* cursor.fetchall() of the script; CASE WHEN expiry > 0 THEN 1 ELSE 0 END is 0 for
\* NULL and 1 for a text, which compares greater than any number
ScriptRowsOf(b, st) ==
    IF b = "firefox"
    THEN LET positive(expiry) == IF Truthy(expiry) THEN 1 ELSE 0
         IN  [ k \in 1..Len(st.rows) |->
                 st.rows[k] \o << positive(st.rows[k][5]), positive(st.rows[k][5]) >> ]
    ELSE [ k \in 1..Len(st.rows) |-> SubSeq(st.rows[k], 1, 11) ]

\* Calls of extract_cookies() on one object
MaxCalls == 2

\* CookieExtractor.extract_cookies, the whole call. The temporary copy holds the rows
\* of the store, so the rows read are the same whether the copy succeeded or not
extract_cookies ==
    /\ pc = "script"
    /\ run.calls < MaxCalls
    /\ run' = [ run EXCEPT !.calls = @ + 1 ]
    /\ IF browser \notin { "chrome", "edge", "firefox" }
       THEN \* get_cookie_db_path raises ValueError before the try block
            /\ result' = [ raised |-> TRUE, value |-> FALSE ]
            /\ UNCHANGED << cookies, stats >>
       ELSE IF ~ScriptQueryReturns(browser, store)
       THEN /\ result' = [ raised |-> FALSE, value |-> FALSE ]
            /\ UNCHANGED << cookies, stats >>
       ELSE LET ctx == [ browser |-> browser, utc_offset |-> run.utc_offset, now |-> clock[1] ]
                loop == ScriptLoop(ctx, ScriptRowsOf(browser, store), cookies, stats)
            IN  IF loop.raised
                THEN /\ cookies' = loop.cookies
                     /\ stats' = loop.stats
                     /\ result' = [ raised |-> FALSE, value |-> FALSE ]
                ELSE /\ cookies' = SortByDomain(loop.cookies)
                     /\ stats' = [ loop.stats EXCEPT !.domains_listed = TRUE ]
                     /\ result' = [ raised |-> FALSE, value |-> TRUE ]
    /\ UNCHANGED << pc, clock, domain_index, tp_result, browser, store, disk, passes >>

\* Rows of a cookies table as the script reads it (11 columns)
ScriptChromeRows ==
    { << "tracker.net", "_ga", "v", "/", Micros(155174, 0, 0), 1, 0,
         Micros(153000, 0, 0), Micros(153100, 0, 0), 1, 1 >>,
      << "example.com", "cart", "v", "/", Micros(0, 0, 0), 0, 0,
         Micros(153000, 0, 0), Micros(153100, 0, 0), 0, 0 >>,
      << ".shop.org", "pref", "v", "/", Micros(155140, 0, 0), 0, 1,
         Micros(153000, 0, 0), PyNone, 1, 1 >>,
      << "a.org", "session", "0123456789abcdefghijABCDEFGHIJ+/=", "/", PyNone, 1, 1,
         Micros(153000, 0, 0), Micros(153100, 0, 500000), 0, 0 >>,
      << "b.org", "pref", "v", "/", Micros(155140, 0, 0), 0, 0,
         Text, Micros(153100, 0, 0), 1, 1 >> }

\* Rows of moz_cookies
ScriptFirefoxRows ==
    { << "tracker.net", "_ga", "v", "/", PyNone, 1, 0,
         Micros(19000, 0, 0), PyNone >>,
      << "example.com", "cart", "v", "/", Seconds(20366, 84600, 0), 0, 0,
         Micros(19000, 0, 0), Micros(19999, 0, 0) >>,
      << "b.org", "pref", "v", "/", Seconds(20100, 0, 0), 0, 0,
         Text, Micros(19999, 0, 0) >> }

\* The file get_cookie_db_path names, for each browser argument: a database of the
\* browser, a file without the table of the query, or a file that cannot be opened
\* ("safari" has none: the path lookup raises whatever the files are)
ScriptStores(b) ==
    LET broken == { Store(TRUE, "other", << >>), Store(FALSE, "chromium_reduced", << >>) }
    IN  IF b \in { "chrome", "edge" }
        THEN { Store(TRUE, "chromium_reduced", rows) :
                 rows \in SeqsUpTo(ScriptChromeRows, MaxRows) } \cup broken
        ELSE IF b = "firefox"
        THEN { Store(TRUE, "firefox", rows) :
                 rows \in SeqsUpTo(ScriptFirefoxRows, MaxRows) } \cup broken
        ELSE { Store(TRUE, "other", << >>) }

\* Seconds the local time of the host is ahead of UTC
UtcOffsets == { 0, 3600 }

\* After CookieExtractor(browser, output_dir)
InitScript ==
    /\ pc = "script"
    /\ browser \in { "chrome", "edge", "firefox", "safari" }
    /\ store \in ScriptStores(browser)
    /\ clock \in [ 1..1 -> Nows ]
    /\ run \in { [ calls |-> 0, utc_offset |-> o ] : o \in UtcOffsets }
    /\ cookies = << >>
    /\ stats = InitialStats
    /\ result = << >>
    /\ domain_index = {}
    /\ tp_result = << >>
    /\ disk = << >>
    /\ passes = << >>

NextScript == extract_cookies

SpecScript == InitScript /\ [][NextScript]_vars

\* The number of cookies of the list whose isTracking is true
TrackingInList == Cardinality({ i \in 1..Len(cookies) : cookies[i].isTracking })

\* C30: in the script extractor, after any sequence of extract_cookies() calls, a
\* second call on the same object and calls that fail midway included,
\* stats.total_cookies is len(cookies) and stats.tracking_cookies is the number of
\* cookies of the list whose isTracking is true.
C30_StatsMatchList ==
    pc = "script" =>
        /\ stats.total_cookies = Len(cookies)
        /\ stats.tracking_cookies = TrackingInList

====
